---- MODULE Spec2Model ----
(***************************************************************************)
(* A model of fnr (recursive find and replace):                            *)
(*   - MatchCollector, the sink that turns the searcher's per-line events  *)
(*     into Match records                         (src/src/search.rs)      *)
(*   - Replacer::apply, the temp-file-then-rename rewrite                   *)
(*                                                (src/src/replace.rs)     *)
(*   - ReplacementDecider and Replacer::consume_matches                     *)
(*                                                (src/src/replace.rs)     *)
(*   - FindAndReplacer::run_parallel, the workers (src/src/main.rs)        *)
(*   - one file from search to rewrite, with the interpolation of the     *)
(*     template                   (src/src/search.rs, src/src/replace.rs)  *)
(*   - PathMatcher::is_match                      (src/src/main.rs)        *)
(*   - the ReplacementDecider on its own          (src/src/replace.rs)     *)
(*   - MatchPrinter in full print mode            (src/src/printer.rs)     *)
(*   - Replacer::apply on several threads         (src/src/replace.rs)     *)
(*   - the ReplacementDeciders of main.rs and of replace.rs, side by side  *)
(* Each component has its own specification over the shared variables; a   *)
(* specification leaves the variables of the other components untouched.   *)
(***************************************************************************)
EXTENDS Integers, Sequences, FiniteSets, TLC

VARIABLES
    \* ---- search.rs: one search_path call
    collector,      \* the MatchCollector struct
    events,         \* sink calls the searcher has still to make, in order
    delivered,      \* sink calls made so far (history)
    collected,      \* what collect() returned
    coll_pc,        \* "searching" | "collected"
    ctx_before,     \* SearcherBuilder::before_context
    ctx_after,      \* SearcherBuilder::after_context
    \* ---- replace.rs: one Replacer::apply call
    original,       \* content at `path` when apply is called
    repl_all,       \* the replacement list apply is called with
    fs_path,        \* content visible at `path`
    fs_tmp,         \* content of the file at dst_path (when tmp_exists)
    tmp_exists,     \* whether a file exists at dst_path
    src_rest,       \* bytes of the source the reader has not returned yet
    wbuf,           \* bytes held in the BufWriter, not yet written to the file
    replacements,   \* the slice of replacements still to apply
    line_num,       \* apply's line counter
    num_replaced,   \* apply's count of replaced lines
    renamed,        \* whether fs::rename has happened
    rw_pc,          \* where apply is
    \* ---- replace.rs: one Replacer, its decider, and the files it is given
    decider,          \* the ReplacementDecider of the Replacer
    files_left,       \* the match lists of the files still to be consumed
    cur_matches,      \* matches.into_iter(): the matches not yet visited
    cur_match,        \* the match m of the current loop turn (its line number)
    replacement_list, \* consume_matches' replacement_list
    should_quit,      \* the caller's should_quit flag
    cm_result,        \* the count the last consume_matches returned (-1: none yet)
    cm_pc,            \* "idle" | "next" | "decide" | "edit"
    stdin_eof,        \* standard input has reached end-of-file
    prompts,          \* decision prompts issued for the current match (history)
    displayed,        \* lines whose diff display_match rendered, this file (history)
    decided,          \* the decisions decide() returned, this file (history)
    applied,          \* the lists apply was called with, this file (history)
    scope_was_set,    \* an 'a' or 'd' answer has been given to this decider (history)
    edits,            \* the lines read at the edit prompt, this file (history)
    \* ---- main.rs: FindAndReplacer::run_parallel
    mode,           \* "prompt" (--prompt) | "write" (--write) | "dry" (neither)
    walk_queue,     \* the directory entries the walker has not handed out yet
    quit_now,       \* the walker was told to quit (a closure returned WalkState::Quit)
    wk,             \* per worker thread: where its closure is, and its locals
    stdout,         \* what buf_writer.print has written, in order
    rewritten,      \* the files apply_replacements has been called for
    \* ---- one file from search to rewrite: search_path, the decisions, apply
    sub_content,    \* the content of the file
    sub_pattern,    \* the bytes the search pattern matches
    sub_template,   \* the replacement template
    sub_matches,    \* the numbers of the matching lines not yet decided
    sub_list,       \* the replacement list built so far
    sub_result,     \* the content of the file afterwards
    sub_pc,         \* "start" | "deciding" | "applied" | "unchanged"
    \* ---- main.rs: one PathMatcher::is_match call
    pm_included,    \* included_paths: <<>> (None) or <<set of patterns>> (Some)
    pm_excluded,    \* excluded_paths: a set of patterns
    pm_path,        \* the path: its bytes and whether they are valid UTF-8
    pm_result,      \* "none" | "true" | "false" | "panic"
    pm_pc,          \* "call" | "returned"
    \* ---- replace.rs: the ReplacementDecider alone, called match after match
    pd_decider,     \* the ReplacementDecider
    pd_input,       \* the lines standard input still holds
    pd_read,        \* the lines read_input returned during the current decide call
    pd_prompts,     \* how often the current decide call has printed the prompt
    pd_result,      \* what decide returned: a ReplacementDecision, "None" before
    pd_pc,          \* "idle" | "prompting" | "returned"
    \* ---- printer.rs: one MatchPrinter in full print mode, on one file
    pr_matches,     \* the Match records of the file not yet displayed
    pr_last_line_num, \* last_line_num: a line number, 0 for None
    pr_out,         \* what was written: the header, "  ---" separators and lines
    pr_pc,          \* "header" | "matches"
    \* ---- replace.rs: apply running on several threads, each on its own file
    ap_dir,         \* the directory entries: path -> inode number, 0 when absent
    ap_inodes,      \* inode number -> content of the file
    ap_wk,          \* per thread: pc, path, dst_path, open handles, data read
    \* ---- main.rs and replace.rs: the two ReplacementDeciders side by side
    dc_prompt,      \* config.prompt
    dc_write,       \* config.write
    dc_main,        \* the ReplacementDecider of main.rs
    dc_lib,         \* the ReplacementDecider of replace.rs
    dc_input,       \* the lines the operator types
    dc_main_used,   \* how many of them the decider of main.rs has read
    dc_lib_used,    \* how many of them the decider of replace.rs has read
    dc_main_out,    \* what the decide calls of main.rs returned
    dc_lib_out,     \* what the decide calls of replace.rs returned
    dc_pc           \* "run" | "stopped"

collVars == <<collector, events, delivered, collected, coll_pc, ctx_before, ctx_after>>

rwVars == <<original, repl_all, fs_path, fs_tmp, tmp_exists, src_rest, wbuf,
            replacements, line_num, num_replaced, renamed, rw_pc>>

replVars == <<decider, files_left, cur_matches, cur_match, replacement_list,
              should_quit, cm_result, cm_pc, stdin_eof, prompts, displayed,
              decided, applied, scope_was_set, edits>>

parVars == <<mode, walk_queue, quit_now, wk, stdout, rewritten>>

subVars == <<sub_content, sub_pattern, sub_template, sub_matches, sub_list,
             sub_result, sub_pc>>

pmVars == <<pm_included, pm_excluded, pm_path, pm_result, pm_pc>>
pdVars == <<pd_decider, pd_input, pd_read, pd_prompts, pd_result, pd_pc>>
prVars == <<pr_matches, pr_last_line_num, pr_out, pr_pc>>
apVars == <<ap_dir, ap_inodes, ap_wk>>
dcVars == <<dc_prompt, dc_write, dc_main, dc_lib, dc_input, dc_main_used, dc_lib_used,
            dc_main_out, dc_lib_out, dc_pc>>

vars == <<collVars, rwVars, replVars, parVars, subVars, pmVars, pdVars, prVars, apVars,
          dcVars>>

\* what each component leaves alone
notColl == <<rwVars, replVars, parVars, subVars, pmVars, pdVars, prVars,
    apVars, dcVars>>
notRw == <<collVars, replVars, parVars, subVars, pmVars, pdVars, prVars,
    apVars, dcVars>>
notRepl == <<collVars, rwVars, parVars, subVars, pmVars, pdVars, prVars,
    apVars, dcVars>>
notPar == <<collVars, rwVars, replVars, subVars, pmVars, pdVars, prVars,
    apVars, dcVars>>
notSub == <<collVars, rwVars, replVars, parVars, pmVars, pdVars, prVars,
    apVars, dcVars>>
notPm == <<collVars, rwVars, replVars, parVars, subVars, pdVars, prVars,
    apVars, dcVars>>
notPd == <<collVars, rwVars, replVars, parVars, subVars, pmVars, prVars,
    apVars, dcVars>>
notPr == <<collVars, rwVars, replVars, parVars, subVars, pmVars, pdVars,
    apVars, dcVars>>
notAp == <<collVars, rwVars, replVars, parVars, subVars, pmVars, pdVars, prVars,
    dcVars>>
notDc == <<collVars, rwVars, replVars, parVars, subVars, pmVars, pdVars, prVars,
    apVars>>

-----------------------------------------------------------------------------
(* Bounds *)

\* longest file given to the searcher, in lines
MaxLines == 6
\* largest before/after context window
MaxCtx == 2
\* longest file given to apply, in bytes
MaxFileLen == 4
\* longest replacement list given to apply
MaxRepl == 2
\* capacity of the BufWriter, in bytes (std's default is 8 KiB; scaled down)
BufCap == 3
\* most files one Replacer is given
MaxFiles == 2
\* most matches in one file
MaxMatches == 3
\* most decision prompts followed for one match
MaxPrompts == 2
\* threads of the parallel walker (num_cpus::get())
NumWorkers == 2
\* most directory entries of one walk
MaxEntries == 2
\* most matches of one file of the walk
MaxParMatches == 1
\* longest path given to the path matcher, in bytes
MaxPathLen == 2
\* longest --include / --exclude pattern, in bytes
MaxPatLen == 1
\* most patterns of one --include / --exclude list
MaxPatterns == 2
\* most lines standard input holds for the decider
MaxResponses == 2
\* longest file whose matches are printed, in lines
MaxPrLines == 5
\* most decide calls made on the two deciders run side by side
MaxCalls == 3

-----------------------------------------------------------------------------
(* Sequence helpers *)

Range(s) == { s[i] : i \in 1..Len(s) }

SeqMap(Op(_), s) == [ i \in 1..Len(s) |-> Op(s[i]) ]

RECURSIVE Flatten(_)
Flatten(ss) == IF ss = <<>> THEN <<>> ELSE Head(ss) \o Flatten(Tail(ss))

StrictlyIncreasing(s) == \A i \in 1..Len(s) : \A j \in 1..Len(s) : i < j => s[i] < s[j]

NoDuplicates(s) == \A i \in 1..Len(s) : \A j \in 1..Len(s) : i # j => s[i] # s[j]

Max(a, b) == IF a >= b THEN a ELSE b

-----------------------------------------------------------------------------
(* search.rs: Line, Match, MatchState, MatchCollector *)

\* A Line is modelled by its number: within one file the text is a function
\* of the number, and the collector never looks at the text.
NoLine == 0

MatchState == {"Before", "Match", "After"}

Match(line, context_pre, context_post) ==
    [line |-> line, context_pre |-> context_pre, context_post |-> context_post]

\* MatchCollector::new
NewCollector ==
    [state            |-> "Before",
     cur_match_line   |-> NoLine,
     cur_context_pre  |-> <<>>,
     cur_context_post |-> <<>>,
     matches          |-> <<>>]

\* A maybe_emit that copies the context buffers instead of moving them out.
maybe_emit_keeps_context(c) ==
    IF c.cur_match_line # NoLine
    THEN [c EXCEPT !.cur_match_line = NoLine,
                   !.matches = Append(c.matches,
                        Match(c.cur_match_line, c.cur_context_pre, c.cur_context_post)),
                   !.state = "Before"]
    ELSE c

\* MatchCollector::maybe_emit: takes cur_match_line; if there was one, moves
\* both context buffers into a new Match, pushes it and sets state to Before.
maybe_emit(c) ==
    IF c.cur_match_line # NoLine
    THEN [c EXCEPT !.cur_match_line = NoLine,
                   !.cur_context_pre = <<>>,
                   !.cur_context_post = <<>>,
                   !.matches = Append(c.matches,
                        Match(c.cur_match_line, c.cur_context_pre, c.cur_context_post)),
                   !.state = "Before"]
    ELSE c

\* A transition that never emits: it only records the new state.
transition_never_emits(c, next) == [c EXCEPT !.state = next]

\* A transition that does not emit when it leaves the After state.
transition_after_keeps_match(c, next) ==
    IF \/ (c.state = "Match" /\ next = "Before")
       \/ (c.state = "Match" /\ next = "Match")
    THEN maybe_emit(c)
    ELSE [c EXCEPT !.state = next]

\* MatchCollector::transition: the four emitting pairs call maybe_emit (and
\* leave the state to it); every other pair just sets the state.
transition(c, next) ==
    IF \/ (c.state = "Match" /\ next = "Before")
       \/ (c.state = "Match" /\ next = "Match")
       \/ (c.state = "After" /\ next = "Before")
       \/ (c.state = "After" /\ next = "Match")
    THEN maybe_emit(c)
    ELSE [c EXCEPT !.state = next]

\* Sink::matched
matched(c, line) ==
    [transition(c, "Match") EXCEPT !.cur_match_line = line]

\* Sink::context, SinkContextKind::Before
context_before(c, line) ==
    LET t == transition(c, "Before")
    IN  [t EXCEPT !.cur_context_pre = Append(t.cur_context_pre, line)]

\* Sink::context, SinkContextKind::After
context_after(c, line) ==
    LET t == transition(c, "After")
    IN  [t EXCEPT !.cur_context_post = Append(t.cur_context_post, line)]

\* MatchCollector::collect: a last maybe_emit, then the matches are taken.
collect(c) == maybe_emit(c)

-----------------------------------------------------------------------------
(* The searcher (grep::searcher, configured in main.rs): the sink calls it   *)
(* makes for a file of n lines of which the lines in `matching` match, with *)
(* kb lines of before-context and ka lines of after-context. Every line is  *)
(* reported at most once, in ascending order: a matching line as a match,   *)
(* preceded by the up to kb lines before it that were not reported yet; a   *)
(* non-matching line among the ka lines after a match as after-context.     *)

Event(kind, number) == [kind |-> kind, number |-> number]

RECURSIVE SearchEventsFrom(_, _, _, _, _, _, _)
SearchEventsFrom(i, last, after_left, n, matching, kb, ka) ==
    IF i > n THEN <<>>
    ELSE IF i \in matching
    THEN LET first == Max(last + 1, i - kb)
         IN  [ j \in 1..(i - first) |-> Event("Before", first + j - 1) ]
             \o << Event("Match", i) >>
             \o SearchEventsFrom(i + 1, i, ka, n, matching, kb, ka)
    ELSE IF after_left > 0
    THEN << Event("After", i) >>
             \o SearchEventsFrom(i + 1, i, after_left - 1, n, matching, kb, ka)
    ELSE SearchEventsFrom(i + 1, last, 0, n, matching, kb, ka)

SearchEvents(n, matching, kb, ka) == SearchEventsFrom(1, 0, 0, n, matching, kb, ka)

-----------------------------------------------------------------------------
(* Specification of one RegexSearcher::search_path call *)

\* no search is under way
CollIdle ==
    /\ collector = NewCollector /\ events = <<>> /\ delivered = <<>>
    /\ collected = <<>> /\ coll_pc = "idle" /\ ctx_before = 0 /\ ctx_after = 0

\* no Replacer is at work
ReplIdle ==
    /\ decider = [kind |-> "Constantly", decision |-> "Ignore", local_decision |-> "None"]
    /\ files_left = <<>> /\ cur_matches = <<>> /\ cur_match = 0
    /\ replacement_list = <<>> /\ should_quit = FALSE /\ cm_result = -1
    /\ cm_pc = "off" /\ stdin_eof = FALSE /\ prompts = 0
    /\ displayed = <<>> /\ decided = <<>> /\ applied = <<>>
    /\ scope_was_set = FALSE
    /\ edits = <<>>

\* no walk is under way
ParIdle ==
    /\ mode = "dry" /\ walk_queue = <<>> /\ quit_now = FALSE
    /\ wk = <<>> /\ stdout = <<>> /\ rewritten = {}

\* no file is being taken from search to rewrite
SubIdle ==
    /\ sub_content = <<>> /\ sub_pattern = {} /\ sub_template = <<>>
    /\ sub_matches = <<>> /\ sub_list = <<>> /\ sub_result = <<>> /\ sub_pc = "off"

\* no path is being matched
\* no apply call is running on the threads
ApIdle ==
    /\ ap_dir = <<>> /\ ap_inodes = <<>> /\ ap_wk = <<>>

\* no pair of deciders is set up
DcIdle ==
    /\ dc_prompt = FALSE /\ dc_write = FALSE
    /\ dc_main = [kind |-> "off"] /\ dc_lib = [kind |-> "off"]
    /\ dc_input = <<>> /\ dc_main_used = 0 /\ dc_lib_used = 0
    /\ dc_main_out = <<>> /\ dc_lib_out = <<>> /\ dc_pc = "off"

\* no printer is in use
PrIdle ==
    /\ pr_matches = <<>> /\ pr_last_line_num = 0 /\ pr_out = <<>> /\ pr_pc = "off"

\* no decide call is under way
PdIdle ==
    /\ pd_decider = [kind |-> "off"] /\ pd_input = <<>> /\ pd_read = <<>>
    /\ pd_prompts = 0 /\ pd_result = "None" /\ pd_pc = "off"

PmIdle ==
    /\ pm_included = <<>> /\ pm_excluded = {}
    /\ pm_path = [bytes |-> <<>>, utf8 |-> TRUE]
    /\ pm_result = "none" /\ pm_pc = "off"

\* no apply call is under way
RwIdle ==
    /\ original = <<>> /\ repl_all = <<>> /\ fs_path = <<>> /\ fs_tmp = <<>>
    /\ tmp_exists = FALSE /\ src_rest = <<>> /\ wbuf = <<>> /\ replacements = <<>>
    /\ line_num = 0 /\ num_replaced = 0 /\ renamed = FALSE /\ rw_pc = "idle"

CollInit ==
    /\ collector = NewCollector
    /\ \E n \in 1..MaxLines : \E matching \in SUBSET (1..n) :
       \E kb \in 0..MaxCtx : \E ka \in 0..MaxCtx :
            /\ events = SearchEvents(n, matching, kb, ka)
            /\ ctx_before = kb
            /\ ctx_after = ka
    /\ delivered = <<>>
    /\ collected = <<>>
    /\ coll_pc = "searching"
    /\ RwIdle
    /\ ReplIdle
    /\ ParIdle
    /\ SubIdle
    /\ PmIdle
    /\ PdIdle
    /\ PrIdle
    /\ ApIdle
    /\ DcIdle

\* the searcher calls Sink::matched
Matched ==
    /\ coll_pc = "searching"
    /\ events # <<>>
    /\ Head(events).kind = "Match"
    /\ collector' = matched(collector, Head(events).number)
    /\ delivered' = Append(delivered, Head(events))
    /\ events' = Tail(events)
    /\ UNCHANGED <<collected, coll_pc, ctx_before, ctx_after, notColl>>

\* the searcher calls Sink::context with a before-context line
ContextBefore ==
    /\ coll_pc = "searching"
    /\ events # <<>>
    /\ Head(events).kind = "Before"
    /\ collector' = context_before(collector, Head(events).number)
    /\ delivered' = Append(delivered, Head(events))
    /\ events' = Tail(events)
    /\ UNCHANGED <<collected, coll_pc, ctx_before, ctx_after, notColl>>

\* the searcher calls Sink::context with an after-context line
ContextAfter ==
    /\ coll_pc = "searching"
    /\ events # <<>>
    /\ Head(events).kind = "After"
    /\ collector' = context_after(collector, Head(events).number)
    /\ delivered' = Append(delivered, Head(events))
    /\ events' = Tail(events)
    /\ UNCHANGED <<collected, coll_pc, ctx_before, ctx_after, notColl>>

\* the search is over: search_path calls collect(), which swaps matches out
Collect ==
    /\ coll_pc = "searching"
    /\ events = <<>>
    /\ collected' = collect(collector).matches
    /\ collector' = [collect(collector) EXCEPT !.matches = <<>>]
    /\ coll_pc' = "collected"
    /\ UNCHANGED <<events, delivered, ctx_before, ctx_after, notColl>>

CollNext == Matched \/ ContextBefore \/ ContextAfter \/ Collect

SpecCollector == CollInit /\ [][CollNext]_vars

\* The sink driven by any collaborator: every stream of events with ascending
\* line numbers, each line reported at most once, as a match or as context
\* of either kind.
AnyEvents ==
    { SelectSeq([ i \in 1..MaxLines |-> Event(f[i], i) ], LAMBDA e : e.kind # "None") :
        f \in [1..MaxLines -> {"None", "Before", "Match", "After"}] }

CollAnyInit ==
    /\ collector = NewCollector
    /\ events \in AnyEvents
    /\ ctx_before = MaxCtx
    /\ ctx_after = MaxCtx
    /\ delivered = <<>>
    /\ collected = <<>>
    /\ coll_pc = "searching"
    /\ RwIdle
    /\ ReplIdle
    /\ ParIdle
    /\ SubIdle
    /\ PmIdle
    /\ PdIdle
    /\ PrIdle
    /\ ApIdle
    /\ DcIdle

SpecCollectorAny == CollAnyInit /\ [][CollNext]_vars

-----------------------------------------------------------------------------
(* Properties of the MatchCollector *)

MatchLinesOf(evs) ==
    LET IsMatch(e) == e.kind = "Match"
        Number(e) == e.number
    IN  SeqMap(Number, SelectSeq(evs, IsMatch))

PrimaryLine(m) == m.line

PrimaryLines(ms) == SeqMap(PrimaryLine, ms)

\* every Match the collector has finalized so far (collect() moves them
\* from collector.matches to the result)
Emitted == collector.matches \o collected

\* C1: no match is lost: once collect() has returned, the output holds exactly
\* one Match per MatchLine event delivered, in order, whose primary line is
\* that event's line.
C1_NoMatchLost ==
    coll_pc = "collected" => PrimaryLines(collected) = MatchLinesOf(delivered)

\* C9: in every emitted Match the context_pre line numbers are strictly
\* increasing and all less than the primary line number, and the context_post
\* line numbers are strictly increasing and all greater than it.
C9_MatchContextInvariant ==
    \A i \in 1..Len(Emitted) :
        LET m == Emitted[i]
        IN  /\ StrictlyIncreasing(m.context_pre)
            /\ StrictlyIncreasing(m.context_post)
            /\ \A l \in Range(m.context_pre) : l < m.line
            /\ \A l \in Range(m.context_post) : l > m.line

\* C9 witness: collect() returned a Match with two lines of context on each side.
C9_Witness ==
    /\ coll_pc = "collected"
    /\ \E i \in 1..Len(collected) :
          /\ Len(collected[i].context_pre) >= 2
          /\ Len(collected[i].context_post) >= 2

Slots(m) == m.context_pre \o <<m.line>> \o m.context_post

\* C10: across the Match records emitted for one file no line number fills two
\* slots (primary, context_pre, context_post) of the same or of different
\* records, and the records come in ascending primary-line order.
C10_NoLineClaimedTwice ==
    /\ NoDuplicates(Flatten(SeqMap(Slots, Emitted)))
    /\ StrictlyIncreasing(PrimaryLines(Emitted))

\* C10 witness: collect() returned two records that both carry context.
C10_Witness ==
    /\ coll_pc = "collected"
    /\ Len(collected) >= 2
    /\ collected[1].context_post # <<>>
    /\ collected[2].context_pre # <<>>

\* C11: with a searcher that reports at most ctx_before before-context lines
\* before a match and at most ctx_after after-context lines after it, every
\* emitted Match has at most ctx_before lines in context_pre and at most
\* ctx_after lines in context_post.
C11_ContextBound ==
    \A i \in 1..Len(Emitted) :
        /\ Len(Emitted[i].context_pre) <= ctx_before
        /\ Len(Emitted[i].context_post) <= ctx_after

\* C11 witness: collect() returned two records, the second with both of its
\* windows full, from a search with after-context and before-context of 1.
C11_Witness ==
    /\ coll_pc = "collected"
    /\ ctx_before = 1
    /\ ctx_after = 1
    /\ Len(collected) >= 2
    /\ Len(collected[1].context_post) = 1
    /\ Len(collected[2].context_pre) = 1
    /\ Len(collected[2].context_post) = 1

\* C20: after a MatchLine event is processed, in whatever state, the state is
\* Match and that line is the pending match.
C20_MatchLineColumn ==
    (coll_pc = "searching" /\ delivered # <<>>
        /\ delivered[Len(delivered)].kind = "Match")
    => (/\ collector.state = "Match"
        /\ collector.cur_match_line = delivered[Len(delivered)].number)

NumbersBetween(kind, lo, hi) ==
    LET Wanted(e) == e.kind = kind /\ lo < e.number /\ e.number < hi
        Number(e) == e.number
    IN  SeqMap(Number, SelectSeq(delivered, Wanted))

\* the record a match is due when windows do not touch: every before-context
\* line delivered since the previous match, every after-context line
\* delivered up to the next one
FullRecord(ms, i) ==
    Match(ms[i],
          NumbersBetween("Before", IF i = 1 THEN 0 ELSE ms[i - 1], ms[i]),
          NumbersBetween("After", ms[i], IF i = Len(ms) THEN MaxLines + 1 ELSE ms[i + 1]))

\* the windows of size k around consecutive matching lines do not touch
WindowsApart(ms, k) ==
    \A i \in 1..(Len(ms) - 1) : ms[i] + k + 1 < ms[i + 1] - k

\* C22: when the context windows (of the same size before and after) of
\* consecutive matches do not touch, collect() returns for every match one
\* record with exactly its before-context and its after-context lines.
\* (Stated as claimed; with a window of 0 a match between two others is lost.)
C22_DisjointWindowsFullContext ==
    (coll_pc = "collected" /\ ctx_before = ctx_after
        /\ WindowsApart(MatchLinesOf(delivered), ctx_before))
    => collected = [ i \in 1..Len(MatchLinesOf(delivered)) |->
                        FullRecord(MatchLinesOf(delivered), i) ]

\* C23: two adjacent matching lines of which the first arrived in state
\* Before give two records: the first with the pre-context it had and no
\* post-context, the second with no pre-context and the after-context lines
\* that follow it. (Stated as claimed; the second match is lost when a third
\* MatchLine comes next.)
C23_AdjacentMatchesSplit ==
    coll_pc = "collected" =>
        \A i \in 1..(Len(delivered) - 1) :
            (/\ delivered[i].kind = "Match"
             /\ delivered[i + 1].kind = "Match"
             /\ delivered[i + 1].number = delivered[i].number + 1
             /\ (i = 1 \/ delivered[i - 1].kind = "Before"))
            => \E j \in 1..(Len(collected) - 1) :
                  /\ collected[j].line = delivered[i].number
                  /\ collected[j].context_post = <<>>
                  /\ collected[j + 1].line = delivered[i + 1].number
                  /\ collected[j + 1].context_pre = <<>>

-----------------------------------------------------------------------------
(* replace.rs: Replacer::apply. File contents are byte sequences over       *)
(* {"a", "b", NL}; `path` and dst_path (path.with_extension("~")) name two  *)
(* different files, as they do for every path whose extension is not "~".   *)

NL == "\n"

Bytes(n) == UNION { [1..k -> {"a", NL}] : k \in 0..n }

\* the text replace_with_captures gives for a matched line (the regex engine
\* interpolates the template; one terminated line here)
Interpolated == <<"b", NL>>

\* the texts a MatchReplacement carries: a terminated line (an interpolated
\* line, or an edit: consume_matches pushes '\n' onto it), and an
\* unterminated one (the interpolation of a last line that has no terminator)
ReplTexts == { <<"b", NL>>, <<"b">> }

MatchReplacement(line, text) == [line |-> line, replacement |-> text]

\* replacement lists in strictly ascending line order (the order of the
\* matches they come from), possibly naming lines the file no longer has
ReplLists(maxline) ==
    { rs \in UNION { [1..k -> [line : 1..maxline, replacement : ReplTexts]] : k \in 0..MaxRepl } :
        \A i \in 1..Len(rs) : \A j \in 1..Len(rs) : i < j => rs[i].line < rs[j].line }

\* index of the first line terminator of s, or 0
RECURSIVE FirstNL(_, _)
FirstNL(s, i) ==
    IF i > Len(s) THEN 0 ELSE IF s[i] = NL THEN i ELSE FirstNL(s, i + 1)

\* BufRead::read_line: the bytes up to and including the next terminator, or
\* all the remaining bytes when there is none
read_line(rest) ==
    LET k == FirstNL(rest, 1)
    IN  IF k = 0 THEN rest ELSE SubSeq(rest, 1, k)

\* BufWriter::write_all: what does not fit makes the buffer go to the file
\* first; data as large as the buffer goes straight to the file.
\* Returns the file content and the buffer afterwards.
buf_write_all(file, buf, data) ==
    LET flushed == Len(buf) + Len(data) > BufCap
        file1 == IF flushed THEN file \o buf ELSE file
        buf1  == IF flushed THEN <<>> ELSE buf
    IN  IF Len(data) >= BufCap
        THEN [file |-> file1 \o data, buf |-> buf1]
        ELSE [file |-> file1, buf |-> buf1 \o data]

\* a comparison against the counter before it was incremented
line_has_replacement_stale(repls, n) ==
    repls # <<>> /\ repls[1].line = n - 1

\* apply: replacements.first().map(|it| it.search_match.line.0 == line_num)
line_has_replacement(repls, n) ==
    repls # <<>> /\ repls[1].line = n

\* an end-of-file check that never fires
eof_check_missing(repls) == FALSE

\* apply: if !replacements.is_empty() { panic!(...) }
replacements_remain(repls) == repls # <<>>

RwInit ==
    /\ \E content \in Bytes(MaxFileLen) : \E rs \in ReplLists(MaxFileLen + 1) :
            /\ original = content
            /\ fs_path = content
            /\ repl_all = rs
            /\ replacements = rs
    /\ fs_tmp = <<>>
    /\ tmp_exists = FALSE
    /\ src_rest = <<>>
    /\ wbuf = <<>>
    /\ line_num = 0
    /\ num_replaced = 0
    /\ renamed = FALSE
    /\ rw_pc = "start"
    /\ CollIdle
    /\ ReplIdle
    /\ ParIdle
    /\ SubIdle
    /\ PmIdle
    /\ PdIdle
    /\ PrIdle
    /\ ApIdle
    /\ DcIdle

\* File::open(path)?
OpenSrc ==
    /\ rw_pc = "start"
    /\ src_rest' = fs_path
    /\ rw_pc' = "opened"
    /\ UNCHANGED <<original, repl_all, fs_path, fs_tmp, tmp_exists, wbuf,
                   replacements, line_num, num_replaced, renamed, notRw>>

\* File::create(&dst_path)?: creates the file, or truncates the one there
CreateDst ==
    /\ rw_pc = "opened"
    /\ fs_tmp' = <<>>
    /\ tmp_exists' = TRUE
    /\ rw_pc' = "loop"
    /\ UNCHANGED <<original, repl_all, fs_path, src_rest, wbuf,
                   replacements, line_num, num_replaced, renamed, notRw>>

\* one turn of the loop that reads a line: the counter goes up, the head
\* replacement or the line itself goes to the writer
CopyLine ==
    /\ rw_pc = "loop"
    /\ src_rest # <<>>
    /\ LET line == read_line(src_rest)
           n    == line_num + 1
           hit  == line_has_replacement(replacements, n)
           new_line == IF hit THEN replacements[1].replacement ELSE line
           w    == buf_write_all(fs_tmp, wbuf, new_line)
       IN  /\ src_rest' = SubSeq(src_rest, Len(line) + 1, Len(src_rest))
           /\ line_num' = n
           /\ num_replaced' = IF hit THEN num_replaced + 1 ELSE num_replaced
           /\ replacements' = IF hit THEN Tail(replacements) ELSE replacements
           /\ fs_tmp' = w.file
           /\ wbuf' = w.buf
    /\ UNCHANGED <<original, repl_all, fs_path, tmp_exists, renamed, rw_pc, notRw>>

\* the turn of the loop in which read_line returns 0 bytes: break
ReachEof ==
    /\ rw_pc = "loop"
    /\ src_rest = <<>>
    /\ rw_pc' = "eof"
    /\ UNCHANGED <<original, repl_all, fs_path, fs_tmp, tmp_exists, src_rest, wbuf,
                   replacements, line_num, num_replaced, renamed, notRw>>

\* panic!("reached EOF with remaining replacements"): the unwinding drops the
\* BufWriter, whose buffer goes to the file at dst_path
PanicAtEof ==
    /\ rw_pc = "eof"
    /\ replacements_remain(replacements)
    /\ fs_tmp' = fs_tmp \o wbuf
    /\ wbuf' = <<>>
    /\ rw_pc' = "panicked"
    /\ UNCHANGED <<original, repl_all, fs_path, tmp_exists, src_rest,
                   replacements, line_num, num_replaced, renamed, notRw>>

\* std::fs::rename(dst_path, path)?: the writer is still alive and its buffer
\* has not been flushed
Rename ==
    /\ rw_pc = "eof"
    /\ ~replacements_remain(replacements)
    /\ fs_path' = fs_tmp
    /\ tmp_exists' = FALSE
    /\ fs_tmp' = <<>>
    /\ renamed' = TRUE
    /\ rw_pc' = "renamed"
    /\ UNCHANGED <<original, repl_all, src_rest, wbuf,
                   replacements, line_num, num_replaced, notRw>>

\* Ok(num_replaced): the locals go out of scope; dropping the BufWriter
\* writes its buffer to the file it holds open, now the file at `path`
ReturnOk ==
    /\ rw_pc = "renamed"
    /\ fs_path' = fs_path \o wbuf
    /\ wbuf' = <<>>
    /\ rw_pc' = "done"
    /\ UNCHANGED <<original, repl_all, fs_tmp, tmp_exists, src_rest,
                   replacements, line_num, num_replaced, renamed, notRw>>

\* the same return when the write of the buffer fails: BufWriter's drop
\* ignores the error
ReturnOkFlushFails ==
    /\ rw_pc = "renamed"
    /\ wbuf # <<>>
    /\ wbuf' = <<>>
    /\ rw_pc' = "done_unflushed"
    /\ UNCHANGED <<original, repl_all, fs_path, fs_tmp, tmp_exists, src_rest,
                   replacements, line_num, num_replaced, renamed, notRw>>

\* one of the `?` of apply returns an error (open, create, read_line,
\* write_all or rename failed); a writer that exists is dropped, and its
\* buffer goes to the file at dst_path
IoError ==
    /\ rw_pc \in {"start", "opened", "loop", "eof"}
    /\ rw_pc = "eof" => ~replacements_remain(replacements)
    /\ fs_tmp' = IF tmp_exists THEN fs_tmp \o wbuf ELSE fs_tmp
    /\ wbuf' = <<>>
    /\ rw_pc' = "failed"
    /\ UNCHANGED <<original, repl_all, fs_path, tmp_exists, src_rest,
                   replacements, line_num, num_replaced, renamed, notRw>>

\* the process dies (a kill, a power cut): what the writer buffered is lost
Crash ==
    /\ rw_pc \in {"start", "opened", "loop", "eof", "renamed"}
    /\ wbuf' = <<>>
    /\ rw_pc' = "crashed"
    /\ UNCHANGED <<original, repl_all, fs_path, fs_tmp, tmp_exists, src_rest,
                   replacements, line_num, num_replaced, renamed, notRw>>

RwNext ==
    \/ OpenSrc \/ CreateDst \/ CopyLine \/ ReachEof \/ PanicAtEof \/ Rename
    \/ ReturnOk \/ ReturnOkFlushFails \/ IoError \/ Crash

SpecRewrite == RwInit /\ [][RwNext]_vars

-----------------------------------------------------------------------------
(* Properties of Replacer::apply *)

\* the physical lines of a file, each with its terminator (the last one may
\* have none)
RECURSIVE PhysicalLines(_)
PhysicalLines(content) ==
    IF content = <<>> THEN <<>>
    ELSE LET k == FirstNL(content, 1)
             cut == IF k = 0 THEN Len(content) ELSE k
         IN  <<SubSeq(content, 1, cut)>>
                 \o PhysicalLines(SubSeq(content, cut + 1, Len(content)))

\* the file in which every line a replacement names is that replacement's
\* text and every other line is the original line
Rewritten(content, rs) ==
    LET lines == PhysicalLines(content)
        Named(i) == { k \in 1..Len(rs) : rs[k].line = i }
    IN  Flatten([ i \in 1..Len(lines) |->
                    IF Named(i) # {}
                    THEN rs[CHOOSE k \in Named(i) : TRUE].replacement
                    ELSE lines[i] ])

\* C2: at every point of a run, crashes and errors included, the original
\* path holds the complete original content or the complete rewritten
\* content. (Stated as claimed; the code does not keep it.)
C2_AtomicRewrite ==
    fs_path = original \/ fs_path = Rewritten(original, repl_all)

C15_IoErrorReported ==
    rw_pc \in {"failed", "done_unflushed"} =>
        /\ rw_pc = "failed"
        /\ ~renamed
        /\ fs_path = original

\* C30: when the temp file is renamed over the original the writer's buffer
\* is empty (every byte has reached the temp file), the file at `path` is
\* not written to after the rename, and no failed write goes unreported.
\* (Stated as claimed; apply never flushes the BufWriter, which is dropped
\* after the rename.)
C30_FlushBeforeRename ==
    /\ [](rw_pc = "renamed" => wbuf = <<>>)
    /\ [][renamed => fs_path' = fs_path]_vars
    /\ [](rw_pc # "done_unflushed")

-----------------------------------------------------------------------------
(* replace.rs: ReplacementDecision, ReplacementDecider, Replacer::consume_matches *)

ReplacementDecision == {"Accept", "Ignore", "Edit", "Terminate"}

\* ReplacementDecider::constantly
Constantly(decision) ==
    [kind |-> "Constantly", decision |-> decision, local_decision |-> "None"]

\* ReplacementDecider::with_prompt
WithPrompt == [kind |-> "WithPrompt", decision |-> "None", local_decision |-> "None"]

\* A reset that leaves local_decision as it is.
reset_keeps_local_decision(d) == d

\* ReplacementDecider::reset
reset(d) ==
    IF d.kind = "WithPrompt" THEN [d EXCEPT !.local_decision = "None"] ELSE d

\* what the operator can type at a prompt, as lines without their terminator
Responses == { <<"y">>, <<"n">>, <<"q">>, <<"a">>, <<"d">>, <<"e">>, <<"?">>, <<"Y">>, <<>> }

\* what the operator can type at the edit prompt
EditTexts == { <<>>, <<"x">> }

\* a prompt whose "y" arm also sets local_decision
prompt_for_decision_y_sets_scope(local_decision, line) ==
    CASE line = <<"y">> -> [decision |-> "Accept",    local_decision |-> "Accept"]
      [] line = <<"n">> -> [decision |-> "Ignore",    local_decision |-> local_decision]
      [] line = <<"q">> -> [decision |-> "Terminate", local_decision |-> local_decision]
      [] line = <<"a">> -> [decision |-> "Accept",    local_decision |-> "Accept"]
      [] line = <<"d">> -> [decision |-> "Ignore",    local_decision |-> "Ignore"]
      [] line = <<"e">> -> [decision |-> "Edit",      local_decision |-> local_decision]
      [] OTHER          -> [decision |-> "None",      local_decision |-> local_decision]

\* a prompt that takes the "Y" of its help text for "y"
prompt_for_decision_upper_y_accepts(local_decision, line) ==
    CASE line \in {<<"y">>, <<"Y">>} ->
                           [decision |-> "Accept",    local_decision |-> local_decision]
      [] line = <<"n">> -> [decision |-> "Ignore",    local_decision |-> local_decision]
      [] line = <<"q">> -> [decision |-> "Terminate", local_decision |-> local_decision]
      [] line = <<"a">> -> [decision |-> "Accept",    local_decision |-> "Accept"]
      [] line = <<"d">> -> [decision |-> "Ignore",    local_decision |-> "Ignore"]
      [] line = <<"e">> -> [decision |-> "Edit",      local_decision |-> local_decision]
      [] OTHER          -> [decision |-> "None",      local_decision |-> local_decision]

\* one turn of the loop of ReplacementDecider::prompt_for_decision on the
\* line read_input returned: the decision it returns ("None": help is printed
\* and the loop continues) and the local_decision it leaves. The
\* local_decision it is given is written, never read.
prompt_for_decision(local_decision, line) ==
    CASE line = <<"y">> -> [decision |-> "Accept",    local_decision |-> local_decision]
      [] line = <<"n">> -> [decision |-> "Ignore",    local_decision |-> local_decision]
      [] line = <<"q">> -> [decision |-> "Terminate", local_decision |-> local_decision]
      [] line = <<"a">> -> [decision |-> "Accept",    local_decision |-> "Accept"]
      [] line = <<"d">> -> [decision |-> "Ignore",    local_decision |-> "Ignore"]
      [] line = <<"e">> -> [decision |-> "Edit",      local_decision |-> local_decision]
      [] OTHER          -> [decision |-> "None",      local_decision |-> local_decision]

\* a Terminate arm that breaks out of the loop instead of returning
decision_outcome_terminate_breaks(d, m, list) ==
    CASE d = "Accept" ->
            [pc |-> "next", list |-> Append(list, MatchReplacement(m, Interpolated)),
             quit |-> FALSE, returns |-> FALSE, rest |-> TRUE]
      [] d = "Ignore" ->
            [pc |-> "next", list |-> list, quit |-> FALSE, returns |-> FALSE, rest |-> TRUE]
      [] d = "Edit" ->
            [pc |-> "edit", list |-> list, quit |-> FALSE, returns |-> FALSE, rest |-> TRUE]
      [] d = "Terminate" ->
            [pc |-> "next", list |-> list, quit |-> TRUE, returns |-> FALSE, rest |-> FALSE]

\* consume_matches: the arms of `match self.replacement_decider.decide()`.
\* pc: where the loop goes; list: replacement_list afterwards; quit: whether
\* *should_quit is set; returns: whether consume_matches returns Ok(0) here;
\* rest: whether the matches not yet visited are kept.
decision_outcome(d, m, list) ==
    CASE d = "Accept" ->
            [pc |-> "next", list |-> Append(list, MatchReplacement(m, Interpolated)),
             quit |-> FALSE, returns |-> FALSE, rest |-> TRUE]
      [] d = "Ignore" ->
            [pc |-> "next", list |-> list, quit |-> FALSE, returns |-> FALSE, rest |-> TRUE]
      [] d = "Edit" ->
            [pc |-> "edit", list |-> list, quit |-> FALSE, returns |-> FALSE, rest |-> TRUE]
      [] d = "Terminate" ->
            [pc |-> "idle", list |-> <<>>, quit |-> TRUE, returns |-> TRUE, rest |-> TRUE]

\* an Edit arm that records a replacement whatever was typed
edit_outcome_records_empty(line, m, list) ==
    Append(list, MatchReplacement(m, Append(line, NL)))

\* consume_matches, the Edit arm: an empty line skips the match, any other
\* line, with '\n' pushed onto it, becomes the match's replacement.
\* Returns replacement_list afterwards.
edit_outcome(line, m, list) ==
    IF line = <<>> THEN list
    ELSE Append(list, MatchReplacement(m, Append(line, NL)))

\* the match lists a file can have: ascending line numbers
MatchLists ==
    { ms \in UNION { [1..k -> 1..MaxMatches] : k \in 0..MaxMatches } : StrictlyIncreasing(ms) }

\* the deciders the constructors build: with_prompt, constantly(Accept),
\* constantly(Ignore)
Deciders == { WithPrompt, Constantly("Accept"), Constantly("Ignore") }

ReplInit ==
    /\ decider \in Deciders
    /\ files_left \in UNION { [1..k -> MatchLists] : k \in 1..MaxFiles }
    /\ cur_matches = <<>>
    /\ cur_match = 0
    /\ replacement_list = <<>>
    /\ should_quit = FALSE
    /\ cm_result = -1
    /\ cm_pc = "idle"
    /\ stdin_eof = FALSE
    /\ prompts = 0
    /\ displayed = <<>>
    /\ decided = <<>>
    /\ applied = <<>>
    /\ scope_was_set = FALSE
    /\ edits = <<>>
    /\ CollIdle
    /\ RwIdle
    /\ ParIdle
    /\ SubIdle
    /\ PmIdle
    /\ PdIdle
    /\ PrIdle
    /\ ApIdle
    /\ DcIdle

\* consume_matches is called with the matches of the next file: an empty
\* list returns Ok(0); otherwise the header is displayed and the decider reset
ConsumeMatches ==
    /\ cm_pc = "idle"
    /\ ~should_quit
    /\ files_left # <<>>
    /\ files_left' = Tail(files_left)
    /\ displayed' = <<>>
    /\ decided' = <<>>
    /\ applied' = <<>>
    /\ prompts' = 0
    /\ cur_match' = 0
    /\ replacement_list' = <<>>
    /\ IF Head(files_left) = <<>>
       THEN /\ cm_result' = 0
            /\ UNCHANGED <<decider, cur_matches, cm_pc>>
       ELSE /\ decider' = reset(decider)
            /\ cur_matches' = Head(files_left)
            /\ cm_pc' = "next"
            /\ UNCHANGED cm_result
    /\ edits' = <<>>
    /\ UNCHANGED <<should_quit, stdin_eof, scope_was_set, notRepl>>

\* the loop takes the next match, computes its replacement and displays it
DisplayMatch ==
    /\ cm_pc = "next"
    /\ cur_matches # <<>>
    /\ cur_match' = Head(cur_matches)
    /\ cur_matches' = Tail(cur_matches)
    /\ displayed' = Append(displayed, Head(cur_matches))
    /\ prompts' = 0
    /\ cm_pc' = "decide"
    /\ UNCHANGED <<decider, files_left, replacement_list, should_quit, cm_result,
                   stdin_eof, decided, applied, scope_was_set, edits, notRepl>>

\* what a returned decision d does to consume_matches
Decided(d) ==
    LET o == decision_outcome(d, cur_match, replacement_list)
    IN  /\ decided' = Append(decided, [line |-> cur_match, decision |-> d])
        /\ replacement_list' = o.list
        /\ cm_pc' = o.pc
        /\ should_quit' = (should_quit \/ o.quit)
        /\ cm_result' = IF o.returns THEN 0 ELSE cm_result
        /\ cur_matches' = IF o.rest THEN cur_matches ELSE <<>>

\* decide() of a Constantly decider
DecideConstantly ==
    /\ cm_pc = "decide"
    /\ decider.kind = "Constantly"
    /\ Decided(decider.decision)
    /\ UNCHANGED <<decider, files_left, cur_match, stdin_eof, prompts, displayed,
                   applied, scope_was_set, edits, notRepl>>

\* decide() of a WithPrompt decider: one read_input of prompt_for_decision.
\* At end-of-file read_input returns the empty string.
PromptForDecision ==
    /\ cm_pc = "decide"
    /\ decider.kind = "WithPrompt"
    /\ prompts < MaxPrompts
    /\ \E line \in Responses : \E eof \in BOOLEAN :
          /\ stdin_eof => eof
          /\ eof => line = <<>>
          /\ stdin_eof' = eof
          /\ prompts' = prompts + 1
          /\ scope_was_set' = (scope_was_set \/ line \in {<<"a">>, <<"d">>})
          /\ LET r == prompt_for_decision(decider.local_decision, line)
             IN  /\ decider' = [decider EXCEPT !.local_decision = r.local_decision]
                 /\ IF r.decision = "None"
                    THEN UNCHANGED <<decided, replacement_list, cm_pc, should_quit,
                                     cm_result, cur_matches>>
                    ELSE Decided(r.decision)
    /\ UNCHANGED <<files_left, cur_match, displayed, applied, edits, notRepl>>

\* the Edit arm: read_input("Replace with [^D to skip] "); an empty line skips
\* the match, any other line plus '\n' becomes the replacement
ReadEdit ==
    /\ cm_pc = "edit"
    /\ \E line \in EditTexts : \E eof \in BOOLEAN :
          /\ stdin_eof => eof
          /\ eof => line = <<>>
          /\ stdin_eof' = eof
          /\ replacement_list' = edit_outcome(line, cur_match, replacement_list)
          /\ edits' = Append(edits, [line |-> cur_match, text |-> line])
    /\ cm_pc' = "next"
    /\ UNCHANGED <<decider, files_left, cur_matches, cur_match, should_quit, cm_result,
                   prompts, displayed, decided, applied, scope_was_set, notRepl>>

\* an end of loop that calls apply whatever the list holds
ApplyAndReturn_always ==
    /\ cm_pc = "next"
    /\ cur_matches = <<>>
    /\ applied' = Append(applied, replacement_list)
    /\ cm_result' = Len(replacement_list)
    /\ replacement_list' = <<>>
    /\ cm_pc' = "idle"
    /\ UNCHANGED <<decider, files_left, cur_matches, cur_match, should_quit, stdin_eof,
                   prompts, displayed, decided, scope_was_set, edits, notRepl>>

\* the loop is over: apply is called if the list is not empty, and
\* consume_matches returns the number of replaced lines
ApplyAndReturn ==
    /\ cm_pc = "next"
    /\ cur_matches = <<>>
    /\ applied' = IF replacement_list = <<>> THEN applied
                  ELSE Append(applied, replacement_list)
    /\ cm_result' = Len(replacement_list)
    /\ replacement_list' = <<>>
    /\ cm_pc' = "idle"
    /\ UNCHANGED <<decider, files_left, cur_matches, cur_match, should_quit, stdin_eof,
                   prompts, displayed, decided, scope_was_set, edits, notRepl>>

ReplNext ==
    \/ ConsumeMatches \/ DisplayMatch \/ DecideConstantly \/ PromptForDecision
    \/ ReadEdit \/ ApplyAndReturn

SpecReplacer == ReplInit /\ [][ReplNext]_vars

-----------------------------------------------------------------------------
(* Properties of the decider and of consume_matches *)

Last(seq) == seq[Len(seq)]

\* C5: a Terminate decision is the last thing that happens in its file: it is
\* the last decision, no match after it was displayed, consume_matches has
\* returned 0 with should_quit set, apply was not called for the file and the
\* replacements accepted before it are gone.
C5_TerminateInFile ==
    \A i \in 1..Len(decided) :
        decided[i].decision = "Terminate" =>
            /\ i = Len(decided)
            /\ Len(displayed) = i
            /\ should_quit
            /\ cm_pc = "idle"
            /\ cm_result = 0
            /\ applied = <<>>
            /\ replacement_list = <<>>

\* C5 witness: the operator accepted the first match of a file and quit at
\* the second, with a third match still to come.
C5_Witness ==
    /\ Len(decided) = 2
    /\ decided[1].decision = "Accept"
    /\ decided[2].decision = "Terminate"
    /\ cur_matches # <<>>
    /\ should_quit

\* C6: under ForceAccept (ForceIgnore) decide returns Accept (Ignore) without
\* issuing a prompt: a decide that starts with the scope set ends in one step
\* with that decision and no new prompt. (Stated as claimed; the decider of
\* replace.rs prompts all the same.)
C6_ScopeShortCircuits ==
    [][ (cm_pc = "decide" /\ decider.kind = "WithPrompt"
            /\ decider.local_decision \in {"Accept", "Ignore"})
        => (/\ prompts' = prompts
            /\ Len(decided') = Len(decided) + 1
            /\ Last(decided').decision = decider.local_decision) ]_vars

\* C8: a read that finds the channel closed makes decide return Terminate.
\* (Stated as claimed; the code takes the empty string for unrecognized input
\* and prompts again.)
C8_ClosedChannelTerminates ==
    [][ (cm_pc = "decide" /\ decider.kind = "WithPrompt" /\ prompts' > prompts /\ stdin_eof')
        => (/\ Len(decided') = Len(decided) + 1
            /\ Last(decided').decision = "Terminate") ]_vars

\* C12: when the first match of a file is up for decision the local decision
\* of a prompting decider is None, whatever was answered in earlier files,
\* and the step that decides it issues a prompt.
C12_ScopeResetPerFile ==
    /\ [](  (cm_pc = "decide" /\ decider.kind = "WithPrompt" /\ Len(displayed) = 1)
            => decider.local_decision = "None")
    /\ [][ (cm_pc = "decide" /\ decider.kind = "WithPrompt" /\ Len(displayed) = 1)
            => prompts' = prompts + 1 ]_vars

\* C12 witness: 'a' or 'd' was answered in an earlier file, and the first
\* match of a later file is displayed and not yet prompted for.
C12_Witness ==
    /\ cm_pc = "decide"
    /\ decider.kind = "WithPrompt"
    /\ Len(displayed) = 1
    /\ decided = <<>>
    /\ prompts = 0
    /\ scope_was_set
    /\ decider.local_decision = "None"

\* C18: an empty line at the edit prompt skips the match: nothing is
\* recorded, the loop goes on with the next match, nothing is terminated and
\* the decider is left as it is; any other line records exactly one
\* MatchReplacement for the match, whose text is the line and a terminator.
C18_EditEmptySkips ==
    [][ cm_pc = "edit" =>
          /\ cm_pc' = "next"
          /\ cur_matches' = cur_matches
          /\ should_quit' = should_quit
          /\ decider' = decider
          /\ Len(edits') = Len(edits) + 1
          /\ Last(edits').line = cur_match
          /\ IF Last(edits').text = <<>>
             THEN replacement_list' = replacement_list
             ELSE replacement_list' =
                    Append(replacement_list,
                           [line |-> cur_match, replacement |-> Last(edits').text \o <<NL>>]) ]_vars

\* C18 witness: in one file the operator edited two matches, skipping the
\* first with an empty line and typing a text for the second, and a third
\* match is still to come.
C18_Witness ==
    /\ Len(edits) = 2
    /\ edits[1].text = <<>>
    /\ edits[2].text # <<>>
    /\ Len(replacement_list) = 1
    /\ replacement_list[1].line = edits[2].line
    /\ cm_pc = "next"
    /\ cur_matches # <<>>
    /\ ~should_quit

\* the text read at the edit prompt of the match on `line`
EditText(line) == (CHOOSE e \in Range(edits) : e.line = line).text

\* the decisions of the current file that record a replacement: Accept, and
\* Edit when a non-empty text was typed
Recording(d) ==
    \/ d.decision = "Accept"
    \/ /\ d.decision = "Edit"
       /\ \E e \in Range(edits) : e.line = d.line /\ e.text # <<>>

\* the replacements the decisions of the current file call for, in the order
\* of the matches
ExpectedReplacements ==
    LET kept == SelectSeq(decided, Recording)
    IN  [ i \in 1..Len(kept) |->
            IF kept[i].decision = "Accept"
            THEN MatchReplacement(kept[i].line, Interpolated)
            ELSE MatchReplacement(kept[i].line, Append(EditText(kept[i].line), NL)) ]

\* C26: for each file apply is called at most once; when it was called, every
\* match of the file had been displayed and decided, the list passed is not
\* empty and is exactly the replacements of the matches decided Accept or
\* Edit with a non-empty text, in the order of the matches, strictly ascending
\* by line number; when consume_matches has returned and no replacement was
\* recorded (or the operator quit) apply was not called, and when one was
\* recorded and nobody quit it was.
C26_RewriterInvocation ==
    /\ Len(applied) <= 1
    /\ applied # <<>> =>
          /\ cm_pc = "idle"
          /\ cur_matches = <<>>
          /\ Len(decided) = Len(displayed)
          /\ \A i \in 1..Len(decided) : decided[i].line = displayed[i]
          /\ \A i \in 1..Len(decided) :
                decided[i].decision = "Edit" => \E e \in Range(edits) : e.line = decided[i].line
          /\ applied[1] # <<>>
          /\ applied[1] = ExpectedReplacements
          /\ StrictlyIncreasing([ i \in 1..Len(applied[1]) |-> applied[1][i].line ])
    /\ (cm_pc = "idle" /\ decided # <<>>) =>
          IF ExpectedReplacements = <<>> \/ Last(decided).decision = "Terminate"
          THEN applied = <<>>
          ELSE applied = <<ExpectedReplacements>>

\* C26 witness: of three matches the first was accepted, the second ignored
\* and the third edited; apply was called once with the two replacements.
C26_Witness ==
    /\ cm_pc = "idle"
    /\ Len(decided) = 3
    /\ decided[1].decision = "Accept"
    /\ decided[2].decision = "Ignore"
    /\ decided[3].decision = "Edit"
    /\ Len(applied) = 1
    /\ Len(applied[1]) = 2
    /\ applied[1][2].replacement = <<"x", NL>>

-----------------------------------------------------------------------------
(* main.rs: FindAndReplacer::run_parallel. The walker (ignore::WalkParallel) *)
(* runs the closure on NumWorkers threads; each thread has its own searcher *)
(* and MatchProcessor and takes the next directory entry when it is free.   *)
(* run_find_and_replace calls run_parallel whatever the configuration;      *)
(* run_with_prompt is an empty stub.                                        *)

Workers == 1..NumWorkers

\* from_config: global_replacement_decision
global_decision(m) ==
    IF m = "prompt" THEN "None" ELSE IF m = "write" THEN "Accept" ELSE "Ignore"

\* a decide that honours the local decision of any thread's decider
main_decide_shared(m, local_decision) ==
    IF global_decision(m) # "None" THEN global_decision(m)
    ELSE IF \E w \in DOMAIN wk : wk[w].local_decision # "None"
    THEN (CHOOSE d \in {"Accept", "Ignore"} :
            \E w \in DOMAIN wk : wk[w].local_decision = d)
    ELSE IF local_decision # "None" THEN local_decision
    ELSE "Prompt"

\* main.rs ReplacementDecider::decide: the global decision, else the local
\* one, else a prompt ("Prompt": prompt_for_decision is entered)
main_decide(m, local_decision) ==
    IF global_decision(m) # "None" THEN global_decision(m)
    ELSE IF local_decision # "None" THEN local_decision
    ELSE "Prompt"

\* a directory entry: something the closure passes over (not a file, not
\* matched by the path matcher, or without a match), a file whose search
\* fails, or a file with matches
Entries ==
    { [kind |-> "skip", matches |-> 0], [kind |-> "error", matches |-> 0] }
        \cup { [kind |-> "file", matches |-> n] : n \in 1..MaxParMatches }

IdleWorker ==
    [pc |-> "idle", file |-> 0, left |-> 0, shown |-> 0, nrepl |-> 0,
     local_decision |-> "None", buffer |-> <<>>, proceed |-> "true"]

\* the pc of a thread whose closure returned WalkState::Quit: after a failed
\* search, a broken pipe, Ok(false) from consume_matches, or an Err from it
QuitPcs == {"quit_search", "quit_pipe", "quit_halt", "quit_err"}

\* the closure returns (pc "idle": WalkState::Continue, a pc of QuitPcs:
\* WalkState::Quit): its locals are gone, the thread's MatchProcessor stays
Returned(r, pc) == [IdleWorker EXCEPT !.pc = pc, !.local_decision = r.local_decision]

\* main.rs ReplacementDecider::reset_local_decision
reset_local_decision(local_decision) == "None"

ParInit ==
    /\ mode \in {"prompt", "write", "dry"}
    /\ \E k \in 1..MaxEntries : \E es \in [1..k -> Entries] :
            walk_queue = [ i \in 1..k |-> [id |-> i, kind |-> es[i].kind,
                                           matches |-> es[i].matches] ]
    /\ quit_now = FALSE
    /\ wk = [ w \in Workers |-> IdleWorker ]
    /\ stdout = <<>>
    /\ rewritten = {}
    /\ CollIdle
    /\ RwIdle
    /\ ReplIdle
    /\ SubIdle
    /\ PmIdle
    /\ PdIdle
    /\ PrIdle
    /\ ApIdle
    /\ DcIdle

\* display_match renders the diff of the next match into the worker's
\* buffer; one "diff" unit stands for all that is rendered for the match
ShowDiff(r) ==
    [r EXCEPT !.shown = @ + 1,
              !.buffer = Append(@, [file |-> r.file, what |-> "diff", n |-> r.shown + 1])]

\* the arms of `match self.replacement_decider.decide()` for decision d
AfterDecision(r, d) ==
    CASE d = "Accept" -> [r EXCEPT !.pc = "match", !.left = @ - 1, !.nrepl = @ + 1]
      [] d = "Ignore" -> [r EXCEPT !.pc = "match", !.left = @ - 1]
      [] d = "Edit" -> [r EXCEPT !.pc = "editing"]
      [] d = "Terminate" -> [r EXCEPT !.pc = "printing", !.proceed = "false"]

\* MatchProcessor::consume_matches from the top of its loop up to the point
\* where the thread blocks on standard input or the function returns: each
\* match is displayed and decided; when none is left apply_replacements is
\* called if anything was recorded (pc "applying")
RECURSIVE RunLoop(_, _)
RunLoop(r, m) ==
    IF r.pc # "match" THEN r
    ELSE IF r.left = 0
    THEN [r EXCEPT !.pc = IF r.nrepl = 0 THEN "printing" ELSE "applying"]
    ELSE LET s == ShowDiff(r)
             d == main_decide(m, s.local_decision)
         IN  IF d = "Prompt"
             THEN [s EXCEPT !.pc = "prompting"]
             ELSE RunLoop(AfterDecision(s, d), m)

\* the worker thread w goes on from r until it blocks or consume_matches
\* returns; apply_replacements, when it is called, renames the file or fails
Proceed(w, r) ==
    LET t == RunLoop(r, mode)
    IN  IF t.pc = "applying"
        THEN \/ /\ wk' = [wk EXCEPT ![w] = [t EXCEPT !.pc = "printing"]]
                /\ rewritten' = rewritten \cup {t.file}
             \/ /\ wk' = [wk EXCEPT ![w] = [t EXCEPT !.pc = "printing", !.proceed = "err"]]
                /\ UNCHANGED rewritten
        ELSE /\ wk' = [wk EXCEPT ![w] = t]
             /\ UNCHANGED rewritten

\* the closure is called with the next entry: it is passed over, or its
\* search fails (WalkState::Quit), or consume_matches runs on its matches
\* (display_header into a fresh buffer, reset_local_decision, the loop)
PullEntry(w) ==
    /\ wk[w].pc = "idle"
    /\ ~quit_now
    /\ walk_queue # <<>>
    /\ walk_queue' = Tail(walk_queue)
    /\ LET e == Head(walk_queue)
       IN  CASE e.kind = "skip" -> UNCHANGED <<wk, quit_now, rewritten>>
             [] e.kind = "error" ->
                    /\ quit_now' = TRUE
                    /\ wk' = [wk EXCEPT ![w] = Returned(@, "quit_search")]
                    /\ UNCHANGED rewritten
             [] e.kind = "file" ->
                    /\ Proceed(w, [pc |-> "match", file |-> e.id, left |-> e.matches,
                                    shown |-> 0, nrepl |-> 0,
                                    local_decision |->
                                        reset_local_decision(wk[w].local_decision),
                                    buffer |-> << [file |-> e.id, what |-> "header",
                                                   n |-> e.matches] >>,
                                    proceed |-> "true"])
                    /\ UNCHANGED quit_now
    /\ UNCHANGED <<mode, stdout, notPar>>

\* a line of standard input reaches a thread blocked in prompt_for_decision;
\* a line that is no valid answer leaves it blocked in the next read_input
Respond(w) ==
    /\ wk[w].pc = "prompting"
    /\ \E line \in Responses :
          LET a == prompt_for_decision(wk[w].local_decision, line)
          IN  /\ a.decision # "None"
              /\ Proceed(w, AfterDecision([wk[w] EXCEPT !.local_decision = a.local_decision],
                                          a.decision))
    /\ UNCHANGED <<mode, walk_queue, quit_now, stdout, notPar>>

\* a line of standard input reaches a thread blocked in the edit prompt: an
\* empty line skips the match, another one is recorded (its display goes to
\* the same buffer and counts as part of the match's "diff" unit)
EditRespond(w) ==
    /\ wk[w].pc = "editing"
    /\ \E line \in EditTexts :
          Proceed(w, IF line = <<>>
                     THEN [wk[w] EXCEPT !.pc = "match", !.left = @ - 1]
                     ELSE [wk[w] EXCEPT !.pc = "match", !.left = @ - 1, !.nrepl = @ + 1])
    /\ UNCHANGED <<mode, walk_queue, quit_now, stdout, notPar>>

\* a print that writes one piece of the buffer at a time
PrintBuffer_piecewise(w) ==
    /\ wk[w].pc = "printing"
    /\ wk[w].buffer # <<>>
    /\ stdout' = Append(stdout, Head(wk[w].buffer))
    /\ IF Len(wk[w].buffer) > 1
       THEN wk' = [wk EXCEPT ![w].buffer = Tail(@)]
       ELSE wk' = [wk EXCEPT ![w] = Returned(@, "idle")]
    /\ UNCHANGED <<mode, walk_queue, quit_now, rewritten, notPar>>

\* a closure that returns WalkState::Continue on Ok(false)
PrintBuffer_halt_continues(w) ==
    /\ wk[w].pc = "printing"
    /\ stdout' = stdout \o wk[w].buffer
    /\ wk' = [wk EXCEPT ![w] = Returned(@, "idle")]
    /\ UNCHANGED <<mode, walk_queue, quit_now, rewritten, notPar>>

\* buf_writer.print(&buffer) writes the whole buffer in one piece; then the
\* WalkState: Quit on a broken pipe, on Ok(false) and on an Err, Continue
\* otherwise
PrintBuffer(w) ==
    /\ wk[w].pc = "printing"
    /\ \E broken_pipe \in BOOLEAN :
          /\ stdout' = IF broken_pipe THEN stdout ELSE stdout \o wk[w].buffer
          /\ IF broken_pipe \/ wk[w].proceed # "true"
             THEN /\ quit_now' = TRUE
                  /\ wk' = [wk EXCEPT ![w] = Returned(@,
                                IF broken_pipe THEN "quit_pipe"
                                ELSE IF wk[w].proceed = "false" THEN "quit_halt"
                                ELSE "quit_err")]
             ELSE /\ wk' = [wk EXCEPT ![w] = Returned(@, "idle")]
                  /\ UNCHANGED quit_now
    /\ UNCHANGED <<mode, walk_queue, rewritten, notPar>>

ParNext ==
    \E w \in Workers :
        \/ PullEntry(w) \/ Respond(w) \/ EditRespond(w) \/ PrintBuffer(w)

SpecParallel == ParInit /\ [][ParNext]_vars

\* the threads blocked on standard input
Prompting == { w \in Workers : wk[w].pc \in {"prompting", "editing"} }

\* the threads that are in the middle of a file
Busy == { w \in Workers : wk[w].pc \notin ({"idle"} \cup QuitPcs) }

\* C7: with prompting enabled files are processed one at a time and at most
\* one prompt awaits the operator at any moment. (Stated as claimed; the code
\* runs the parallel walker in this mode too.)
C7_InteractiveSingleThreaded ==
    mode = "prompt" => (Cardinality(Prompting) <= 1 /\ Cardinality(Busy) <= 1)

\* the files whose output is in stdout, piece by piece
OutputFiles == [ i \in 1..Len(stdout) |-> stdout[i].file ]

\* C14: without prompting, what the workers emit for one file forms one
\* contiguous block of the combined output, however the workers interleave.
C14_NoInterleavedOutput ==
    mode # "prompt" =>
        \A i \in 1..Len(stdout) : \A k \in 1..Len(stdout) :
            (i < k /\ OutputFiles[i] = OutputFiles[k])
                => \A j \in i..k : OutputFiles[j] = OutputFiles[i]

\* C14 witness: with --write the output of two files is complete, the file
\* discovered second first.
C14_Witness ==
    /\ mode = "write"
    /\ Len(stdout) = 4
    /\ OutputFiles = <<2, 2, 1, 1>>
    /\ rewritten = {1, 2}

\* C16: a failed search stops only the worker that hit it: as long as no
\* worker has quit for another reason the walk goes on. (Stated as claimed;
\* the closure returns WalkState::Quit, which stops the whole walk.)
C16_SearchErrorWorkerLocal ==
    (\A w \in Workers : wk[w].pc \notin {"quit_pipe", "quit_halt", "quit_err"})
        => ~quit_now

\* C17: Ok(false) from consume_matches makes the closure return
\* WalkState::Quit: the walk is told to stop, the worker starts no further
\* file, the files already renamed stay renamed and no entry is handed out
\* any more.
C17_TerminateRunScoped ==
    /\ [](\A w \in Workers : wk[w].pc = "quit_halt" => quit_now)
    /\ [][ \A w \in Workers :
             (wk[w].pc = "printing" /\ wk[w].proceed = "false" /\ wk'[w] # wk[w])
                => (wk'[w].pc \in {"quit_halt", "quit_pipe"} /\ quit_now') ]_vars
    /\ [][ \A w \in Workers : wk[w].pc = "quit_halt" => wk'[w] = wk[w] ]_vars
    /\ [][ rewritten \subseteq rewritten' ]_vars
    /\ [][ quit_now => (quit_now' /\ walk_queue' = walk_queue) ]_vars

\* C17 witness: the operator quit in one file while another file was still
\* to be handed out.
C17_Witness ==
    /\ \E w \in Workers : wk[w].pc = "quit_halt"
    /\ \A w \in Workers : wk[w].pc \in {"idle", "quit_halt"}
    /\ walk_queue # <<>>
    /\ Head(walk_queue).kind = "file"

\* C29: every thread starts with a decider whose local_decision is None; a
\* step changes the local_decision of at most one thread, the one that read
\* an answer or started a file, and leaves the other threads as they were;
\* and with prompting a thread whose own local_decision is None is asked
\* about every match it displays, whatever the other threads were answered.
C29_WorkerScopeIsolation ==
    /\ \A w \in Workers : wk[w].local_decision = "None"
    /\ [][ \A w \in Workers :
             wk'[w].local_decision # wk[w].local_decision =>
                /\ wk[w].pc \in {"idle", "prompting"}
                /\ \A v \in Workers \ {w} : wk'[v] = wk[v] ]_vars
    /\ [][ \A w \in Workers :
             (/\ mode = "prompt"
              /\ wk'[w].shown > wk[w].shown
              /\ wk'[w].local_decision = "None")
                => wk'[w].pc = "prompting" ]_vars

\* C29 witness: one thread was answered "a" and keeps Accept as its local
\* decision while another thread, its own local decision None, is asked
\* about the match of its file.
C29_Witness ==
    \E w \in Workers : \E v \in Workers \ {w} :
        /\ wk[w].local_decision = "Accept"
        /\ wk[v].pc = "prompting"
        /\ wk[v].local_decision = "None"
        /\ wk[v].shown = 1

\* C27: whenever a thread waits for the operator's decision on a match, the
\* diff of that match is already part of the output the operator sees.
\* (Stated as claimed; run_parallel prints the buffer the diffs are rendered
\* into only after consume_matches has returned.)
C27_DiffBeforeDecision ==
    \A w \in Workers :
        wk[w].pc = "prompting" =>
            \E i \in 1..Len(stdout) :
                stdout[i] = [file |-> wk[w].file, what |-> "diff", n |-> wk[w].shown]

-----------------------------------------------------------------------------
(* One file from search to rewrite: search_path finds the matching lines,   *)
(* consume_matches turns each decision into a MatchReplacement, and apply   *)
(* writes the file. A pattern is modelled by the set of bytes it matches    *)
(* (a one-byte class), a template by its bytes (no capture references).     *)

\* the patterns: one that matches the letter (`a`), and one that matches the
\* letter or the line terminator (`[a\n]`; `\s` is such a class for blanks)
Patterns == { {"a"}, {"a", NL} }

\* the templates: empty, a letter, a letter and a line terminator
Templates == { <<>>, <<"b">>, <<"b", NL>> }

\* the searcher hands a line to the matcher without its terminator
without_terminator(line) ==
    IF line # <<>> /\ line[Len(line)] = NL THEN SubSeq(line, 1, Len(line) - 1) ELSE line

line_matches(pattern, line) ==
    \E i \in 1..Len(without_terminator(line)) : without_terminator(line)[i] \in pattern

\* RegexSearcher::search_path: the numbers of the matching lines, ascending
search_path(content, pattern) ==
    LET lines == PhysicalLines(content)
    IN  SelectSeq([ i \in 1..Len(lines) |-> i ], LAMBDA i : line_matches(pattern, lines[i]))

\* Replacer::replace_with_captures on the text of a matched line, which is
\* the whole physical line with its terminator: every match of the pattern
\* in it is replaced by the template
replace_with_captures(pattern, template, input) ==
    Flatten([ i \in 1..Len(input) |-> IF input[i] \in pattern THEN template ELSE <<input[i]>> ])

\* Replacer::apply, the loop: what is written for the source bytes `rest`
\* when line_num is n and `repls` are the replacements still to apply
RECURSIVE apply_output(_, _, _)
apply_output(rest, repls, n) ==
    IF rest = <<>> THEN <<>>
    ELSE LET line == read_line(rest)
             hit  == line_has_replacement(repls, n + 1)
         IN  (IF hit THEN repls[1].replacement ELSE line)
                \o apply_output(SubSeq(rest, Len(line) + 1, Len(rest)),
                                IF hit THEN Tail(repls) ELSE repls, n + 1)

SubInit ==
    /\ sub_content \in Bytes(MaxFileLen)
    /\ sub_pattern \in Patterns
    /\ sub_template \in Templates
    /\ sub_matches = <<>>
    /\ sub_list = <<>>
    /\ sub_result = sub_content
    /\ sub_pc = "start"
    /\ CollIdle
    /\ RwIdle
    /\ ReplIdle
    /\ ParIdle
    /\ PmIdle
    /\ PdIdle
    /\ PrIdle
    /\ ApIdle
    /\ DcIdle

\* searcher.search_path(path)
SubSearch ==
    /\ sub_pc = "start"
    /\ sub_matches' = search_path(sub_content, sub_pattern)
    /\ sub_pc' = "deciding"
    /\ UNCHANGED <<sub_content, sub_pattern, sub_template, sub_list, sub_result, notSub>>

\* the decision for the next match is Accept: its replacement is the
\* interpolation of the matched line
SubAccept ==
    /\ sub_pc = "deciding"
    /\ sub_matches # <<>>
    /\ LET m == Head(sub_matches)
           text == PhysicalLines(sub_content)[m]
       IN  sub_list' = Append(sub_list,
                MatchReplacement(m, replace_with_captures(sub_pattern, sub_template, text)))
    /\ sub_matches' = Tail(sub_matches)
    /\ UNCHANGED <<sub_content, sub_pattern, sub_template, sub_result, sub_pc, notSub>>

\* the decision for the next match is Ignore
SubIgnore ==
    /\ sub_pc = "deciding"
    /\ sub_matches # <<>>
    /\ sub_matches' = Tail(sub_matches)
    /\ UNCHANGED <<sub_content, sub_pattern, sub_template, sub_list, sub_result, sub_pc,
                   notSub>>

\* the decision for the next match is Edit
SubEdit ==
    /\ sub_pc = "deciding"
    /\ sub_matches # <<>>
    /\ \E line \in EditTexts :
            sub_list' = edit_outcome(line, Head(sub_matches), sub_list)
    /\ sub_matches' = Tail(sub_matches)
    /\ UNCHANGED <<sub_content, sub_pattern, sub_template, sub_result, sub_pc, notSub>>

\* every match is decided: apply rewrites the file if the list is not empty
SubApply ==
    /\ sub_pc = "deciding"
    /\ sub_matches = <<>>
    /\ IF sub_list = <<>>
       THEN /\ sub_pc' = "unchanged"
            /\ UNCHANGED sub_result
       ELSE /\ sub_pc' = "applied"
            /\ sub_result' = apply_output(sub_content, sub_list, 0)
    /\ UNCHANGED <<sub_content, sub_pattern, sub_template, sub_matches, sub_list, notSub>>

SubNext == SubSearch \/ SubAccept \/ SubIgnore \/ SubEdit \/ SubApply

SpecSubstitute == SubInit /\ [][SubNext]_vars

\* C13: the file apply produces has as many physical lines as the original,
\* for replacements made by Accept and by Edit. (Stated as claimed; an
\* interpolation can add or remove a line terminator.)
C13_LineCountPreserved ==
    sub_pc = "applied" =>
        Len(PhysicalLines(sub_result)) = Len(PhysicalLines(sub_content))

-----------------------------------------------------------------------------
(* main.rs: PathMatcher. Paths and patterns are byte strings over a letter  *)
(* and the dot (a regex metacharacter); a compiled regex is a sequence of   *)
(* atoms, each a literal byte or the wildcard.                              *)

PathBytes == UNION { [1..k -> {"a", "."}] : k \in 0..MaxPathLen }

\* a path: its bytes, and whether Path::to_str can read them as UTF-8
Paths == [bytes : PathBytes, utf8 : BOOLEAN]

\* the patterns of one --include or --exclude list
PatternLists ==
    { ps \in SUBSET (UNION { [1..k -> {"a", "."}] : k \in 0..MaxPatLen }) :
        Cardinality(ps) <= MaxPatterns }

\* regex::escape: every byte of the pattern stands for itself
regex_escape(pattern) ==
    [ i \in 1..Len(pattern) |-> [kind |-> "literal", byte |-> pattern[i]] ]

\* RegexSet::new(escaped)
RegexSet(patterns) == { regex_escape(pat) : pat \in patterns }

atom_matches(atom, byte) == atom.kind = "any" \/ atom.byte = byte

\* an unanchored regex matches when it matches at some offset of the text
regex_is_match(regex, text) ==
    \E start \in 0..(Len(text) - Len(regex)) :
        \A i \in 1..Len(regex) : atom_matches(regex[i], text[start + i])

\* RegexSet::is_match: some regex of the set matches
set_is_match(set, text) == \E regex \in set : regex_is_match(regex, text)

\* an is_match that lets the exclude set veto an included path
is_match_exclude_first(included_paths, excluded_paths, path) ==
    IF ~path.utf8 THEN "panic"
    ELSE IF set_is_match(excluded_paths, path.bytes) THEN "false"
    ELSE IF included_paths # <<>>
    THEN (IF set_is_match(included_paths[1], path.bytes) THEN "true" ELSE "false")
    ELSE "true"

\* PathMatcher::is_match; included_paths is <<>> for None and <<set>> for
\* Some(set). to_str().unwrap() panics on a path that is not UTF-8.
is_match(included_paths, excluded_paths, path) ==
    IF ~path.utf8 THEN "panic"
    ELSE IF included_paths # <<>>
    THEN (IF set_is_match(included_paths[1], path.bytes) THEN "true" ELSE "false")
    ELSE (IF ~set_is_match(excluded_paths, path.bytes) THEN "true" ELSE "false")

PmInit ==
    /\ pm_included \in {<<>>} \cup { <<ps>> : ps \in PatternLists }
    /\ pm_excluded \in PatternLists
    /\ pm_path \in Paths
    /\ pm_result = "none"
    /\ pm_pc = "call"
    /\ CollIdle
    /\ RwIdle
    /\ ReplIdle
    /\ ParIdle
    /\ SubIdle
    /\ PdIdle
    /\ PrIdle
    /\ ApIdle
    /\ DcIdle

\* from_config compiles the two lists; the closure calls is_match(path)
IsMatch ==
    /\ pm_pc = "call"
    /\ pm_result' = is_match(IF pm_included = <<>> THEN <<>>
                             ELSE <<RegexSet(pm_included[1])>>,
                             RegexSet(pm_excluded), pm_path)
    /\ pm_pc' = "returned"
    /\ UNCHANGED <<pm_included, pm_excluded, pm_path, notPm>>

PmNext == IsMatch

SpecPathMatcher == PmInit /\ [][PmNext]_vars

\* the pattern occurs in the text as a substring
Occurs(pattern, text) ==
    \E start \in 0..(Len(text) - Len(pattern)) :
        SubSeq(text, start + 1, start + Len(pattern)) = pattern

\* the paths the include/exclude configuration accepts
Accepted ==
    \/ pm_included # <<>> /\ \E pat \in pm_included[1] : Occurs(pat, pm_path.bytes)
    \/ pm_included = <<>> /\ ~\E pat \in pm_excluded : Occurs(pat, pm_path.bytes)

\* C19 as stated: is_match(path) is true exactly when an include set is
\* configured and one of its patterns occurs in the path, or none is
\* configured and no exclude pattern occurs in it, for every path.
C19_PathMatcherPrecedence_AsStated ==
    pm_pc = "returned" => (pm_result = "true" <=> Accepted)

\* C19: for a path that is valid UTF-8 is_match returns true exactly when an
\* include set is configured and one of its patterns occurs in the path, or
\* none is configured and no exclude pattern occurs in it (the exclude set is
\* not consulted when an include set is configured); for a path that is not
\* valid UTF-8 is_match panics.
C19_PathMatcherPrecedence ==
    pm_pc = "returned" =>
        IF pm_path.utf8
        THEN /\ pm_result \in {"true", "false"}
             /\ pm_result = "true" <=> Accepted
        ELSE pm_result = "panic"

\* C19 witness: a path in which both an include and an exclude pattern occur
\* was accepted.
C19_Witness ==
    /\ pm_pc = "returned"
    /\ pm_path.utf8
    /\ pm_included # <<>>
    /\ \E pat \in pm_included[1] : pat # <<>> /\ Occurs(pat, pm_path.bytes)
    /\ \E pat \in pm_excluded : pat # <<>> /\ Occurs(pat, pm_path.bytes)
    /\ pm_result = "true"

-----------------------------------------------------------------------------
(* replace.rs: the ReplacementDecider on its own. decide is called for match
   after match, reset at the start of a file; standard input holds a finite
   sequence of lines, and read_input returns the empty string once it is
   exhausted. *)

\* what standard input can hold
Inputs == UNION { [1..k -> Responses] : k \in 0..MaxResponses }

PdInit ==
    /\ pd_decider \in Deciders
    /\ pd_input \in Inputs
    /\ pd_read = <<>>
    /\ pd_prompts = 0
    /\ pd_result = "None"
    /\ pd_pc = "idle"
    /\ CollIdle
    /\ RwIdle
    /\ ReplIdle
    /\ ParIdle
    /\ SubIdle
    /\ PmIdle
    /\ PrIdle
    /\ ApIdle
    /\ DcIdle

\* decide() of a Constantly decider returns its decision
PdDecideConstantly ==
    /\ pd_pc = "idle"
    /\ pd_decider.kind = "Constantly"
    /\ pd_result' = pd_decider.decision
    /\ pd_read' = <<>>
    /\ pd_prompts' = 0
    /\ pd_pc' = "returned"
    /\ UNCHANGED <<pd_decider, pd_input, notPd>>

\* decide() of a WithPrompt decider enters prompt_for_decision
PdDecide ==
    /\ pd_pc = "idle"
    /\ pd_decider.kind = "WithPrompt"
    /\ pd_result' = "None"
    /\ pd_read' = <<>>
    /\ pd_prompts' = 0
    /\ pd_pc' = "prompting"
    /\ UNCHANGED <<pd_decider, pd_input, notPd>>

\* one turn of the loop: read_input prints the prompt and reads a line (the
\* empty string at end-of-file); a valid token returns, anything else prints
\* the help and loops
PdReadInput ==
    /\ pd_pc = "prompting"
    /\ pd_prompts <= MaxResponses
    /\ LET line == IF pd_input = <<>> THEN <<>> ELSE Head(pd_input)
           r == prompt_for_decision(pd_decider.local_decision, line)
       IN  /\ pd_input' = IF pd_input = <<>> THEN <<>> ELSE Tail(pd_input)
           /\ pd_read' = Append(pd_read, line)
           /\ pd_prompts' = pd_prompts + 1
           /\ pd_decider' = [pd_decider EXCEPT !.local_decision = r.local_decision]
           /\ pd_result' = r.decision
           /\ pd_pc' = IF r.decision = "None" THEN "prompting" ELSE "returned"
    /\ UNCHANGED notPd

\* consume_matches goes on to the next match of the file
PdNextMatch ==
    /\ pd_pc = "returned"
    /\ pd_pc' = "idle"
    /\ UNCHANGED <<pd_decider, pd_input, pd_read, pd_prompts, pd_result, notPd>>

\* consume_matches starts the next file: replacement_decider.reset()
PdReset ==
    /\ pd_pc = "returned"
    /\ pd_decider' = reset(pd_decider)
    /\ pd_read' = <<>>
    /\ pd_pc' = "idle"
    /\ UNCHANGED <<pd_input, pd_prompts, pd_result, notPd>>

PdNext == PdDecideConstantly \/ PdDecide \/ PdReadInput \/ PdNextMatch \/ PdReset

SpecPrompt == PdInit /\ [][PdNext]_vars

\* C24: the decider's scope (local_decision) changes only when the line just
\* read is "a" (to Accept) or "d" (to Ignore) and when the decider is reset (to
\* None); the responses y, n, q, e, ? and any other line leave it as it was,
\* and a decide call of a Constantly decider changes neither the decider nor
\* the input.
C24_ScopeFrame ==
    [][ /\ pd_decider'.local_decision # pd_decider.local_decision =>
            \/ /\ pd_pc = "prompting"
               /\ pd_read' = Append(pd_read, <<"a">>)
               /\ pd_decider'.local_decision = "Accept"
            \/ /\ pd_pc = "prompting"
               /\ pd_read' = Append(pd_read, <<"d">>)
               /\ pd_decider'.local_decision = "Ignore"
            \/ /\ pd_pc = "returned"
               /\ pd_pc' = "idle"
               /\ pd_decider'.local_decision = "None"
        /\ (pd_pc = "prompting" /\ pd_read' # pd_read) =>
            /\ Last(pd_read') = <<"a">> => pd_decider'.local_decision = "Accept"
            /\ Last(pd_read') = <<"d">> => pd_decider'.local_decision = "Ignore"
        /\ pd_decider.kind = "Constantly" =>
            /\ pd_decider' = pd_decider
            /\ pd_input' = pd_input ]_vars

\* C24 witness: the scope was set by "a", and the next call has returned on
\* "n" with the scope still set.
C24_Witness ==
    /\ pd_pc = "returned"
    /\ pd_decider.local_decision = "Accept"
    /\ pd_read = << <<"n">> >>
    /\ pd_result = "Ignore"

\* the decision the prompt's option table gives a token
TokenDecision(line) ==
    CASE line = <<"y">> -> "Accept"
      [] line = <<"n">> -> "Ignore"
      [] line = <<"q">> -> "Terminate"
      [] line = <<"a">> -> "Accept"
      [] line = <<"d">> -> "Ignore"
      [] line = <<"e">> -> "Edit"
      [] OTHER          -> "None"

-----------------------------------------------------------------------------
(* printer.rs: MatchPrinter in full print mode on the matches of one file.
   What is written is a sequence of units: the header, "  ---" separators
   and numbered lines (context lines, the "-" line and the "+" line of a
   match). *)

Min(a, b) == IF a < b THEN a ELSE b

\* the Match records of a file of n lines whose lines in `matching` match,
\* with kb lines of before-context and ka lines of after-context: a match
\* has the non-matching lines after it as post-context, up to ka, and the
\* lines before it that no earlier record holds as pre-context, up to kb
FileMatches(n, matching, kb, ka) ==
    LET ms == SelectSeq([ i \in 1..n |-> i ], LAMBDA i : i \in matching)
        post_end(i) == Min(Min(ms[i] + ka, n),
                           IF i < Len(ms) THEN ms[i + 1] - 1 ELSE n)
        pre_start(i) == Max(Max(ms[i] - kb, 1),
                            IF i > 1 THEN post_end(i - 1) + 1 ELSE 1)
    IN  [ i \in 1..Len(ms) |->
            Match(ms[i],
                  [ j \in 1..(ms[i] - pre_start(i)) |-> pre_start(i) + j - 1 ],
                  [ j \in 1..(post_end(i) - ms[i]) |-> ms[i] + j ]) ]

Unit(kind, number) == [kind |-> kind, number |-> number]

\* MatchPrinter::display_match_full: what it writes for the match m, and
\* last_line_num afterwards (0 stands for None)
display_match_full(last_line_num, m) ==
    LET has_line_break ==
            /\ last_line_num # 0
            /\ IF m.context_pre # <<>>
               THEN m.context_pre[1] > last_line_num + 1
               ELSE m.line > last_line_num + 1
    IN  [out |-> (IF has_line_break THEN <<Unit("sep", 0)>> ELSE <<>>)
                    \o [ j \in 1..Len(m.context_pre) |-> Unit("context", m.context_pre[j]) ]
                    \o <<Unit("del", m.line), Unit("add", m.line)>>
                    \o [ j \in 1..Len(m.context_post) |-> Unit("context", m.context_post[j]) ],
         last_line_num |-> IF m.context_post # <<>>
                           THEN m.context_post[Len(m.context_post)]
                           ELSE last_line_num]

\* a printer that is about to display a file; last_line_num is None after
\* build, or what an earlier file left in it
PrInit ==
    /\ \E n \in 1..MaxPrLines : \E matching \in (SUBSET (1..n)) \ {{}} :
       \E kb \in 0..MaxCtx : \E ka \in 0..MaxCtx :
            pr_matches = FileMatches(n, matching, kb, ka)
    /\ pr_last_line_num \in 0..MaxPrLines
    /\ pr_out = <<>>
    /\ pr_pc = "header"
    /\ CollIdle
    /\ RwIdle
    /\ ReplIdle
    /\ ParIdle
    /\ SubIdle
    /\ PmIdle
    /\ PdIdle
    /\ ApIdle
    /\ DcIdle

\* display_header_full writes the header line and forgets last_line_num
DisplayHeader ==
    /\ pr_pc = "header"
    /\ pr_out' = <<Unit("header", Len(pr_matches))>>
    /\ pr_last_line_num' = 0
    /\ pr_pc' = "matches"
    /\ UNCHANGED <<pr_matches, notPr>>

\* display_match in full mode, for the next match of the file
DisplayMatchFull ==
    /\ pr_pc = "matches"
    /\ pr_matches # <<>>
    /\ LET r == display_match_full(pr_last_line_num, Head(pr_matches))
       IN  /\ pr_out' = pr_out \o r.out
           /\ pr_last_line_num' = r.last_line_num
    /\ pr_matches' = Tail(pr_matches)
    /\ UNCHANGED <<pr_pc, notPr>>

PrNext == DisplayHeader \/ DisplayMatchFull

SpecPrinter == PrInit /\ [][PrNext]_vars

\* C28: in what is written for a file, a separator stands exactly where the
\* line numbers have a gap: two lines written one after the other are at
\* most one line number apart, a separator stands between two lines that
\* are more than one apart, and none follows the header. (Stated as claimed;
\* last_line_num is only set while post-context lines are written.)
C28_RunSeparator ==
    \A i \in 2..Len(pr_out) :
        /\ (pr_out[i].kind # "sep" /\ pr_out[i - 1].kind \notin {"sep", "header"})
                => pr_out[i].number <= pr_out[i - 1].number + 1
        /\ pr_out[i].kind = "sep"
                => /\ pr_out[i - 1].kind \notin {"sep", "header"}
                   /\ i < Len(pr_out)
                   /\ pr_out[i + 1].number > pr_out[i - 1].number + 1

-----------------------------------------------------------------------------
(* replace.rs: Replacer::apply on the threads of the parallel walk, each on
   the file the walker handed it. A path is a file stem and an extension
   (all files in one directory); the file system is a directory of entries
   that point to inodes, so that a handle keeps its file across a rename. *)

\* the paths of the files: two stems; no extension, "rs", or "~"
ApPaths == [stem : {"f", "g"}, ext : {"", "rs", "~"}]

\* Path::with_extension: the extension is replaced, or added when there is none
with_extension(path, extension) == [path EXCEPT !.ext = extension]

\* what the loop of apply writes for the content it reads
new_content(data) == [ i \in 1..Len(data) |-> [data[i] EXCEPT !.text = "new"] ]

\* a write of `data` through a handle whose position is the start of the file
write_at_start(content, data) ==
    data \o SubSeq(content, Len(data) + 1, Len(content))

ApInit ==
    /\ \E files \in [Workers -> ApPaths] :
          /\ \A w \in Workers : \A v \in Workers : w # v => files[w] # files[v]
          /\ ap_dir = [ path \in ApPaths |->
                          IF \E w \in Workers : files[w] = path
                          THEN CHOOSE w \in Workers : files[w] = path
                          ELSE 0 ]
          /\ ap_inodes = [ w \in Workers |-> << [file |-> files[w], text |-> "old"] >> ]
          /\ ap_wk = [ w \in Workers |->
                          [pc |-> "start", path |-> files[w],
                           dst_path |-> with_extension(files[w], "~"),
                           src |-> 0, dst |-> 0, buf |-> <<>>] ]
    /\ CollIdle
    /\ RwIdle
    /\ ReplIdle
    /\ ParIdle
    /\ SubIdle
    /\ PmIdle
    /\ PdIdle
    /\ PrIdle
    /\ DcIdle

\* File::open(path)?
ApOpen(w) ==
    /\ ap_wk[w].pc = "start"
    /\ IF ap_dir[ap_wk[w].path] = 0
       THEN ap_wk' = [ap_wk EXCEPT ![w].pc = "failed"]
       ELSE ap_wk' = [ap_wk EXCEPT ![w].pc = "opened", ![w].src = ap_dir[ap_wk[w].path]]
    /\ UNCHANGED <<ap_dir, ap_inodes, notAp>>

\* File::create(&dst_path)?: a new file, or the file there truncated
ApCreate(w) ==
    /\ ap_wk[w].pc = "opened"
    /\ LET dst_path == ap_wk[w].dst_path
       IN  IF ap_dir[dst_path] = 0
           THEN /\ ap_inodes' = Append(ap_inodes, <<>>)
                /\ ap_dir' = [ap_dir EXCEPT ![dst_path] = Len(ap_inodes) + 1]
                /\ ap_wk' = [ap_wk EXCEPT ![w].pc = "created",
                                           ![w].dst = Len(ap_inodes) + 1]
           ELSE /\ ap_inodes' = [ap_inodes EXCEPT ![ap_dir[dst_path]] = <<>>]
                /\ ap_wk' = [ap_wk EXCEPT ![w].pc = "created", ![w].dst = ap_dir[dst_path]]
                /\ UNCHANGED ap_dir
    /\ UNCHANGED notAp

\* the loop: every line is read and given to the BufWriter, which passes it
\* on to the file (a buffer that ran full) or keeps it
ApCopy(w) ==
    /\ ap_wk[w].pc = "created"
    /\ LET data == new_content(ap_inodes[ap_wk[w].src])
       IN  \/ /\ ap_inodes' = [ap_inodes EXCEPT ![ap_wk[w].dst] = write_at_start(@, data)]
              /\ ap_wk' = [ap_wk EXCEPT ![w].pc = "eof"]
           \/ /\ ap_wk' = [ap_wk EXCEPT ![w].pc = "eof", ![w].buf = data]
              /\ UNCHANGED ap_inodes
    /\ UNCHANGED <<ap_dir, notAp>>

\* std::fs::rename(dst_path, path)?
ApRename(w) ==
    /\ ap_wk[w].pc = "eof"
    /\ LET path == ap_wk[w].path
           dst_path == ap_wk[w].dst_path
       IN  IF ap_dir[dst_path] = 0
           THEN /\ ap_wk' = [ap_wk EXCEPT ![w].pc = "failed"]
                /\ UNCHANGED ap_dir
           ELSE /\ ap_wk' = [ap_wk EXCEPT ![w].pc = "renamed"]
                /\ ap_dir' = IF dst_path = path THEN ap_dir
                             ELSE [ap_dir EXCEPT ![path] = ap_dir[dst_path],
                                                 ![dst_path] = 0]
    /\ UNCHANGED <<ap_inodes, notAp>>

\* apply returns: the BufWriter is dropped and writes what it still holds
ApReturn(w) ==
    /\ ap_wk[w].pc = "renamed"
    /\ ap_inodes' = [ap_inodes EXCEPT ![ap_wk[w].dst] = write_at_start(@, ap_wk[w].buf)]
    /\ ap_wk' = [ap_wk EXCEPT ![w].pc = "done", ![w].buf = <<>>]
    /\ UNCHANGED <<ap_dir, notAp>>

ApNext ==
    \E w \in Workers :
        \/ ApOpen(w) \/ ApCreate(w) \/ ApCopy(w) \/ ApRename(w) \/ ApReturn(w)

SpecTempPaths == ApInit /\ [][ApNext]_vars

\* the threads that are inside apply
Applying == { w \in Workers : ap_wk[w].pc \in {"opened", "created", "eof", "renamed"} }

\* C31: the temp path of a file is never the file's own path, two threads
\* that are inside apply at the same time have different temp paths, and a
\* file whose apply has returned holds its own rewritten content. (Stated
\* as claimed; with_extension("~") maps files that differ only in their
\* extension to one temp path.)
C31_TempPathsDistinct ==
    /\ \A w \in Workers : ap_wk[w].dst_path # ap_wk[w].path
    /\ \A w \in Applying : \A v \in Applying \ {w} :
            ap_wk[w].dst_path # ap_wk[v].dst_path
    /\ \A w \in Workers :
            ap_wk[w].pc = "done" =>
                /\ ap_dir[ap_wk[w].path] # 0
                /\ ap_inodes[ap_dir[ap_wk[w].path]]
                        = << [file |-> ap_wk[w].path, text |-> "new"] >>

-----------------------------------------------------------------------------
(* The ReplacementDecider of main.rs (should_prompt, global_decision,
   local_decision) and the ReplacementDecider of replace.rs (Constantly /
   WithPrompt), built for the same flags and given the same calls and the
   same lines of operator input, each reading from its own position. A call
   that finds the input exhausted never returns ("Blocked"). *)

\* main.rs ReplacementDecider::new
ReplacementDecider_new(should_prompt, global) ==
    [should_prompt |-> should_prompt, global_decision |-> global,
     local_decision |-> "None"]

\* a from_config that builds the decider with prompting disabled
from_config_decider_never_prompts(prompt, write) ==
    ReplacementDecider_new(FALSE,
        IF prompt THEN "None" ELSE IF write THEN "Accept" ELSE "Ignore")

\* from_config: global_replacement_decision and the decider made from it
from_config_decider(prompt, write) ==
    ReplacementDecider_new(prompt,
        IF prompt THEN "None" ELSE IF write THEN "Accept" ELSE "Ignore")

\* the decider of replace.rs for the same mode
lib_decider(prompt, write) ==
    IF prompt THEN WithPrompt
    ELSE IF write THEN Constantly("Accept") ELSE Constantly("Ignore")

\* the loop of prompt_for_decision on the lines `input`: the decision it
\* returns, the local_decision it leaves and the number of lines it read
RECURSIVE prompt_loop(_, _)
prompt_loop(local_decision, input) ==
    IF input = <<>>
    THEN [decision |-> "Blocked", local_decision |-> local_decision, used |-> 0]
    ELSE LET a == prompt_for_decision(local_decision, Head(input))
         IN  IF a.decision # "None"
             THEN [decision |-> a.decision, local_decision |-> a.local_decision, used |-> 1]
             ELSE LET r == prompt_loop(a.local_decision, Tail(input))
                  IN  [r EXCEPT !.used = @ + 1]

\* main.rs ReplacementDecider::decide
decide_main(d, input) ==
    IF d.global_decision # "None"
    THEN [decision |-> d.global_decision, local_decision |-> d.local_decision, used |-> 0]
    ELSE IF d.local_decision # "None"
    THEN [decision |-> d.local_decision, local_decision |-> d.local_decision, used |-> 0]
    ELSE IF ~d.should_prompt
    THEN [decision |-> "panic", local_decision |-> d.local_decision, used |-> 0]
    ELSE prompt_loop(d.local_decision, input)

\* replace.rs ReplacementDecider::decide
decide_lib(d, input) ==
    IF d.kind = "Constantly"
    THEN [decision |-> d.decision, local_decision |-> d.local_decision, used |-> 0]
    ELSE prompt_loop(d.local_decision, input)

DcInit ==
    /\ dc_prompt \in BOOLEAN
    /\ dc_write \in BOOLEAN
    /\ dc_main = from_config_decider(dc_prompt, dc_write)
    /\ dc_lib = lib_decider(dc_prompt, dc_write)
    /\ dc_input \in Inputs
    /\ dc_main_used = 0
    /\ dc_lib_used = 0
    /\ dc_main_out = <<>>
    /\ dc_lib_out = <<>>
    /\ dc_pc = "run"
    /\ CollIdle
    /\ RwIdle
    /\ ReplIdle
    /\ ParIdle
    /\ SubIdle
    /\ PmIdle
    /\ PdIdle
    /\ PrIdle
    /\ ApIdle

\* decide() is called on both deciders
DcDecide ==
    /\ dc_pc = "run"
    /\ Len(dc_main_out) < MaxCalls
    /\ LET m == decide_main(dc_main, SubSeq(dc_input, dc_main_used + 1, Len(dc_input)))
           l == decide_lib(dc_lib, SubSeq(dc_input, dc_lib_used + 1, Len(dc_input)))
       IN  /\ dc_main' = [dc_main EXCEPT !.local_decision = m.local_decision]
           /\ dc_lib' = [dc_lib EXCEPT !.local_decision = l.local_decision]
           /\ dc_main_used' = dc_main_used + m.used
           /\ dc_lib_used' = dc_lib_used + l.used
           /\ dc_main_out' = Append(dc_main_out, m.decision)
           /\ dc_lib_out' = Append(dc_lib_out, l.decision)
           /\ dc_pc' = IF {m.decision, l.decision} \cap {"Blocked", "panic"} # {}
                       THEN "stopped" ELSE "run"
    /\ UNCHANGED <<dc_prompt, dc_write, dc_input, notDc>>

\* reset_local_decision() and reset() are called at the start of a file
DcReset ==
    /\ dc_pc = "run"
    /\ dc_main' = [dc_main EXCEPT !.local_decision = reset_local_decision(@)]
    /\ dc_lib' = reset(dc_lib)
    /\ UNCHANGED <<dc_prompt, dc_write, dc_input, dc_main_used, dc_lib_used,
                   dc_main_out, dc_lib_out, dc_pc, notDc>>

DcNext == DcDecide \/ DcReset

SpecDeciders == DcInit /\ [][DcNext]_vars

\* C32: decide of main.rs never reaches its "[bug] invalid state" panic: for
\* every combination of --prompt and --write the decider has the global
\* decision Accept (--write without --prompt) or Ignore (neither), or it has
\* no global decision and prompting enabled, and this stays so over every
\* sequence of decide and reset calls and operator responses.
C32_PanicUnreachable ==
    /\ dc_main.global_decision =
            (IF dc_prompt THEN "None" ELSE IF dc_write THEN "Accept" ELSE "Ignore")
    /\ dc_main.global_decision # "None" \/ dc_main.should_prompt
    /\ \A i \in 1..Len(dc_main_out) : dc_main_out[i] # "panic"

\* C32 witness: with --prompt the decider was answered "a", was reset and
\* has prompted again, so that decide passed the should_prompt test with no
\* decision at hand.
C32_Witness ==
    /\ dc_prompt
    /\ dc_input # <<>>
    /\ dc_input[1] = <<"a">>
    /\ Len(dc_main_out) = 2
    /\ dc_main_used = 2
    /\ dc_main_out[2] \in ReplacementDecision

\* C33: the two deciders have returned the same decisions and have read the
\* same number of operator responses. (Stated as claimed; the decider of
\* replace.rs prompts whatever its local_decision is.)
C33_DecidersEquivalent ==
    /\ dc_main_out = dc_lib_out
    /\ dc_main_used = dc_lib_used

====
